---- MODULE Spec2Model ----
(***************************************************************************)
(* A model of the agent backend: the request handler of                    *)
(* agent.controller.ts (routing between plugin, RAG and conversational     *)
(* replies), the plugin registry and the plugin execution service,         *)
(* the in-memory session store and the collaborators they call.            *)
(*                                                                         *)
(* JavaScript runs one callback at a time: every action below is one       *)
(* callback run to its next await.  Time is a clock in milliseconds that   *)
(* advances only between callbacks.                                        *)
(***************************************************************************)
EXTENDS Integers, Sequences, FiniteSets, TLC

(***************************************************************************)
(* Bounds of the model                                                     *)
(***************************************************************************)
MaxRequests == 1
MaxRegistryOps == 1
TickStep == 10000
MaxMatches == 1
MaxAppends == 52
MaxWindow == 2
MaxInFlight == 2

(***************************************************************************)
(* Program constants                                                       *)
(***************************************************************************)
defaultTimeout == 20000
maxMessagesPerSession == 50
maxMessageLength == 10000
maxSessionIdLength == 100
contextWindow == 6
ragTopK == 3
\* 24 hours, in milliseconds
maxSessionAge == 86400000
upsertBatchSize == 100
\* one hour, in milliseconds
cleanupInterval == 3600000

(***************************************************************************)
(* Text.  A string of the program is a TLA+ string; Chars gives its        *)
(* characters, for the functions that look inside a string.  A text the   *)
(* program builds by concatenation is a sequence of segments.              *)
(***************************************************************************)
LongMessage == "a x10001"
LongSessionId == "s x101"

Chars(s) ==
    CASE s = "" -> <<>>
      [] s = "   " -> <<" "," "," ">>
      [] s = LongMessage -> [i \in 1..(maxMessageLength + 1) |-> "a"]
      [] s = LongSessionId -> [i \in 1..(maxSessionIdLength + 1) |-> "s"]
      [] s = "s1" -> <<"s","1">>
      [] s = "s2" -> <<"s","2">>
      [] s = "Calculate 15 + 27" ->
           <<"C","a","l","c","u","l","a","t","e"," ","1","5"," ","+"," ","2","7">>
      [] s = "how to implement a REST API" ->
           <<"h","o","w"," ","t","o"," ","i","m","p","l","e","m","e","n","t"," ","a"," ","R","E","S","T"," ","A","P","I">>
      [] s = "Hello, this is a test message" ->
           <<"H","e","l","l","o",","," ","t","h","i","s"," ","i","s"," ","a"," ","t","e","s","t"," ","m","e","s","s","a","g","e">>
      [] s = "How do I cook rice" ->
           <<"H","o","w"," ","d","o"," ","I"," ","c","o","o","k"," ","r","i","c","e">>
      [] s = "What is the weather in London?" ->
           <<"W","h","a","t"," ","i","s"," ","t","h","e"," ","w","e","a","t","h","e","r"," ","i","n"," ","L","o","n","d","o","n","?">>
      [] s = "an interesting day" ->
           <<"a","n"," ","i","n","t","e","r","e","s","t","i","n","g"," ","d","a","y">>

UpperCase == <<"A","B","C","D","E","F","G","H","I","J","K","L","M",
               "N","O","P","Q","R","S","T","U","V","W","X","Y","Z">>
LowerCase == <<"a","b","c","d","e","f","g","h","i","j","k","l","m",
               "n","o","p","q","r","s","t","u","v","w","x","y","z">>
Digits == {"0","1","2","3","4","5","6","7","8","9"}

toLowerCase(cs) ==
    [i \in 1..Len(cs) |->
        IF \E k \in 1..26 : UpperCase[k] = cs[i]
        THEN LowerCase[CHOOSE k \in 1..26 : UpperCase[k] = cs[i]]
        ELSE cs[i]]

IsSpace(c) == c \in {" ", "\t", "\n", "\r"}
IsWordChar(c) == (\E k \in 1..26 : LowerCase[k] = c \/ UpperCase[k] = c)
                 \/ c \in Digits \/ c = "_"

\* String.prototype.trim
trim(cs) ==
    IF \A i \in 1..Len(cs) : IsSpace(cs[i]) THEN <<>>
    ELSE LET a == CHOOSE i \in 1..Len(cs) :
                    ~IsSpace(cs[i]) /\ \A j \in 1..(i-1) : IsSpace(cs[j])
             b == CHOOSE i \in 1..Len(cs) :
                    ~IsSpace(cs[i]) /\ \A j \in (i+1)..Len(cs) : IsSpace(cs[j])
         IN SubSeq(cs, a, b)

\* the literal lit occurs in cs at position i
LitAt(cs, i, lit) ==
    /\ i >= 1
    /\ i + Len(lit) - 1 <= Len(cs)
    /\ \A k \in 1..Len(lit) : cs[i + k - 1] = lit[k]

\* String.prototype.includes
includes(cs, lit) == \E i \in 1..(Len(cs) + 1) : LitAt(cs, i, lit)

\* cs[i..j-1] is a run of white space (empty when j = i)
SpaceRun(cs, i, j) == i <= j /\ j <= Len(cs) + 1 /\ \A k \in i..(j-1) : IsSpace(cs[k])

(***************************************************************************)
(* AgentController.shouldUseRAG                                            *)
(***************************************************************************)
ragKeywords ==
    { <<"h","o","w"," ","t","o">>,
      <<"e","x","p","l","a","i","n">>,
      <<"t","u","t","o","r","i","a","l">>,
      <<"g","u","i","d","e">>,
      <<"d","o","c","u","m","e","n","t","a","t","i","o","n">>,
      <<"e","x","a","m","p","l","e">>,
      <<"b","e","s","t"," ","p","r","a","c","t","i","c","e">>,
      <<"i","m","p","l","e","m","e","n","t">>,
      <<"c","r","e","a","t","e">>,
      <<"b","u","i","l","d">>,
      <<"s","e","t","u","p">>,
      <<"c","o","n","f","i","g","u","r","e">>,
      <<"i","n","s","t","a","l","l">>,
      <<"t","y","p","e","s","c","r","i","p","t">>,
      <<"e","x","p","r","e","s","s">>,
      <<"n","o","d","e","j","s">>,
      <<"a","p","i">>,
      <<"d","a","t","a","b","a","s","e">>,
      <<"s","e","c","u","r","i","t","y">>,
      <<"a","u","t","h","e","n","t","i","c","a","t","i","o","n">>,
      <<"r","e","s","t">>,
      <<"i","n","t","e","r","f","a","c","e">>,
      <<"f","u","n","c","t","i","o","n">>,
      <<"c","l","a","s","s">>,
      <<"m","e","t","h","o","d">>,
      <<"v","a","r","i","a","b","l","e">>,
      <<"i","m","p","o","r","t">>,
      <<"e","x","p","o","r","t">> }

TechNouns ==
    { <<"t","y","p","e","s","c","r","i","p","t">>, <<"e","x","p","r","e","s","s">>,
      <<"n","o","d","e","j","s">>, <<"a","p","i">>,
      <<"i","n","t","e","r","f","a","c","e">>, <<"f","u","n","c","t","i","o","n">>,
      <<"c","l","a","s","s">> }

\* /lit\s+\w+/i at position i of the lower-cased text
LitSpaceWord(cs, i, lit) ==
    /\ LitAt(cs, i, lit)
    /\ \E j \in (i + Len(lit) + 1)..Len(cs) :
          SpaceRun(cs, i + Len(lit), j) /\ IsWordChar(cs[j])

\* /how\s+(?:to|do|can)\s+\w+/i
ragPatternHow(cs) ==
    \E i \in 1..Len(cs) :
      /\ LitAt(cs, i, <<"h","o","w">>)
      /\ \E j \in (i + 4)..Len(cs) :
           /\ SpaceRun(cs, i + 3, j)
           /\ \E alt \in { <<"t","o">>, <<"d","o">>, <<"c","a","n">> } :
                LitSpaceWord(cs, j, alt)

\* /what\s+is\s+(?:typescript|express|nodejs|javascript|api|database|interface|function|class)/i
ragPatternWhatIs(cs) ==
    \E i \in 1..Len(cs) :
      /\ LitAt(cs, i, <<"w","h","a","t">>)
      /\ \E j \in (i + 5)..Len(cs) :
           /\ SpaceRun(cs, i + 4, j)
           /\ LitAt(cs, j, <<"i","s">>)
           /\ \E k \in (j + 3)..Len(cs) :
                /\ SpaceRun(cs, j + 2, k)
                /\ \E alt \in TechNouns \cup
                       { <<"j","a","v","a","s","c","r","i","p","t">>,
                         <<"d","a","t","a","b","a","s","e">> } :
                     LitAt(cs, k, alt)

\* /explain\s+\w+/i
ragPatternExplain(cs) ==
    \E i \in 1..Len(cs) : LitSpaceWord(cs, i, <<"e","x","p","l","a","i","n">>)

\* /create\s+(?:a|an)?\s*(?:typescript|express|nodejs|api|interface|function|class)/i
ragPatternCreate(cs) ==
    \E i \in 1..Len(cs) :
      /\ LitAt(cs, i, <<"c","r","e","a","t","e">>)
      /\ \E j \in (i + 7)..Len(cs) :
           /\ SpaceRun(cs, i + 6, j)
           /\ \E art \in { <<>>, <<"a">>, <<"a","n">> } :
                /\ LitAt(cs, j, art)
                /\ \E k \in (j + Len(art))..Len(cs) :
                     /\ SpaceRun(cs, j + Len(art), k)
                     /\ \E alt \in TechNouns : LitAt(cs, k, alt)

\* /implement\s+\w+/i
ragPatternImplement(cs) ==
    \E i \in 1..Len(cs) : LitSpaceWord(cs, i, <<"i","m","p","l","e","m","e","n","t">>)

shouldUseRAG(message) ==
    LET lowerMessage == toLowerCase(Chars(message))
        hasKeyword == \E keyword \in ragKeywords : includes(lowerMessage, keyword)
        hasPattern == \/ ragPatternHow(lowerMessage)
                      \/ ragPatternWhatIs(lowerMessage)
                      \/ ragPatternExplain(lowerMessage)
                      \/ ragPatternCreate(lowerMessage)
                      \/ ragPatternImplement(lowerMessage)
    IN hasKeyword \/ hasPattern

(***************************************************************************)
(* Values of a request body.  A field is undefined, a number or a string.  *)
(***************************************************************************)
Undefined == [type |-> "undefined", str |-> ""]
Num(s) == [type |-> "number", str |-> s]
Str(s) == [type |-> "string", str |-> s]

\* JavaScript's !v for these values
Falsy(v) == v.type = "undefined" \/ (v.type = "string" /\ v.str = "")
                                 \/ (v.type = "number" /\ v.str = "0")

\* AgentController.validateRequest: the error text, "" when the body is valid
validateRequest(body) ==
    IF Falsy(body.message) THEN "Message is required"
    ELSE IF body.message.type # "string" THEN "Message must be a string"
    ELSE IF Len(trim(Chars(body.message.str))) = 0 THEN "Message cannot be empty"
    ELSE IF Len(Chars(body.message.str)) > maxMessageLength
         THEN "Message is too long (max 10000 characters)"
    ELSE IF Falsy(body.session_id) THEN "Session ID is required"
    ELSE IF body.session_id.type # "string" THEN "Session ID must be a string"
    ELSE IF Len(Chars(body.session_id.str)) > maxSessionIdLength
         THEN "Session ID is too long (max 100 characters)"
    ELSE ""

(***************************************************************************)
(* Texts built by concatenation and the small helpers on sequences         *)
(***************************************************************************)
NoText == <<>>

SeqToSet(q) == { q[i] : i \in 1..Len(q) }

\* Array.prototype.slice(-n) for n >= 0; slice(-0) is slice(0), the whole array
sliceLast(q, n) ==
    IF n = 0 THEN q
    ELSE IF Len(q) <= n THEN q ELSE SubSeq(q, Len(q) - n + 1, Len(q))

RECURSIVE join(_, _)
\* Array.prototype.join(sep) of a sequence of texts
join(parts, sep) ==
    IF Len(parts) = 0 THEN NoText
    ELSE IF Len(parts) = 1 THEN parts[1]
    ELSE parts[1] \o sep \o join(Tail(parts), sep)

(***************************************************************************)
(* CorePluginRegistry.  The Map keeps its keys in insertion order, so the  *)
(* registry is the sequence of the registered plugins' names.  What a      *)
(* plugin's canHandle and execute do is the plugin's own business: the     *)
(* model draws it for every call.                                          *)
(***************************************************************************)
PluginNames == {"weather", "math", "custom"}
CanHandleOutcomes == {"true", "false", "throws"}

has(reg, name) == \E i \in 1..Len(reg) : reg[i] = name

register(reg, name) == IF has(reg, name) THEN reg ELSE Append(reg, name)

unregister(reg, name) == SelectSeq(reg, LAMBDA n : n # name)

\* the plugin registered under the name, "" for undefined
getPlugin(reg, name) == IF has(reg, name) THEN name ELSE ""

\* a registry that lets a canHandle exception through
findApplicablePluginsUncaught(reg, canHandle) ==
    [threw |-> \E i \in 1..Len(reg) : canHandle[reg[i]] = "throws",
     plugins |-> SelectSeq(reg, LAMBDA p : canHandle[p] = "true")]

\* findApplicablePlugins: canHandle[p] is what plugin p's canHandle does for
\* this context.  threw says whether the call itself throws.
findApplicablePlugins(reg, canHandle) ==
    [threw |-> FALSE,
     plugins |-> SelectSeq(reg, LAMBDA p : canHandle[p] = "true")]

(***************************************************************************)
(* Plugin results, errors and promises                                     *)
(***************************************************************************)
PluginResult(success, formattedResponse, message, error) ==
    [success |-> success, formattedResponse |-> formattedResponse,
     message |-> message, error |-> error]

NoPluginResult == PluginResult(FALSE, NoText, NoText, NoText)

\* what a plugin's execute may resolve with: a success in the shape the plugin
\* uses (formatted, message only, or neither) or a failure
PluginResultsOf(p) ==
    { CASE p = "weather" -> PluginResult(TRUE, <<p, " formatted response">>, NoText, NoText)
        [] p = "math" -> PluginResult(TRUE, NoText, <<p, " message">>, NoText)
        [] OTHER -> PluginResult(TRUE, NoText, NoText, NoText),
      PluginResult(FALSE, <<p, " cannot answer">>, NoText, <<p, " failed">>) }

\* a thrown value: an Error with a message, or any other value
Error(message) == [isError |-> TRUE, message |-> message]
Thrown(value) == [isError |-> FALSE, message |-> value]
NoError == Thrown(NoText)

\* what a plugin's execute may reject with
PluginFaultsOf(p) ==
    { IF p = "math" THEN Thrown(<<p, " gave up">>) ELSE Error(<<p, " request failed">>) }

\* how the promise returned by a plugin's execute settled
Resolved(result) == [resolved |-> TRUE, result |-> result, fault |-> NoError]
Faulted(fault) == [resolved |-> FALSE, result |-> NoPluginResult, fault |-> fault]
NoOutcome == Faulted(NoError)

PluginExecutionResult(pluginName, result, executionTime) ==
    [pluginName |-> pluginName, result |-> result, executionTime |-> executionTime]

NoExecutionResult == PluginExecutionResult("", NoPluginResult, 0)

Pending == [state |-> "pending", value |-> NoExecutionResult, reason |-> NoError]
Fulfilled(v) == [state |-> "fulfilled", value |-> v, reason |-> NoError]
Rejected(e) == [state |-> "rejected", value |-> NoExecutionResult, reason |-> e]

\* a promise that takes every outcome it is given
settleAgain(promise, outcome) == IF promise.state = "none" THEN promise ELSE outcome

\* a promise settles once: resolve and reject on a settled promise do nothing
settle(promise, outcome) == IF promise.state = "pending" THEN outcome ELSE promise

(***************************************************************************)
(* PluginExecutionService.executePlugin and executeWithTimeout             *)
(***************************************************************************)
NotFoundMessage(pluginName) == <<"Plugin '", pluginName, "' not found">>

TimedOutMessage(pluginName, timeout) ==
    <<"Plugin ", pluginName, " execution timed out after ", ToString(timeout), "ms">>

\* an executePlugin that throws when the plugin is not registered
executePluginNotFoundThrows(pluginName, startTime, t) ==
    Rejected(Error(<<"Plugin '", pluginName, "' not found">>))

\* executePlugin, the plugin is not registered (lines 34-43)
executePluginNotFound(pluginName, startTime, t) ==
    Fulfilled(PluginExecutionResult(
        pluginName,
        PluginResult(FALSE, NoText, NoText, NotFoundMessage(pluginName)),
        t - startTime))

\* executePlugin, executeWithTimeout resolved (lines 47-53)
executePluginReturn(pluginName, result, startTime, t) ==
    Fulfilled(PluginExecutionResult(pluginName, result, t - startTime))

\* executePlugin, executeWithTimeout rejected (lines 54-64)
executePluginCatch(pluginName, error, startTime, t) ==
    Fulfilled(PluginExecutionResult(
        pluginName,
        PluginResult(FALSE, NoText, NoText,
                     IF error.isError THEN error.message ELSE <<"Unknown error">>),
        t - startTime))

\* executeWithTimeout: the deadline of the timer set at time t
timerDeadline(t, timeout) == t + timeout

\* executeWithTimeout: the error the timer callback rejects with
timeoutError(pluginName, timeout) == Error(TimedOutMessage(pluginName, timeout))

\* executeApplicablePlugins, lines 88-102: one result per settled promise
allSettledResult(pluginName, promise) ==
    IF promise.state = "fulfilled" THEN promise.value
    ELSE PluginExecutionResult(
            pluginName,
            PluginResult(FALSE, NoText, NoText,
                         <<"Plugin execution promise rejected: ">> \o promise.reason.message),
            0)

(***************************************************************************)
(* MemoryService.  A timestamp is the clock's value in milliseconds.       *)
(***************************************************************************)
SessionIds == {"s1", "s2"}

Message(role, content, timestamp) ==
    [role |-> role, content |-> content, timestamp |-> timestamp]

NoSession == [exists |-> FALSE, messages |-> <<>>, created_at |-> 0, last_activity |-> 0]

\* getSession: the table after the call (the session is touched or created)
getSession(table, sessionId, t) ==
    IF table[sessionId].exists
    THEN [table EXCEPT ![sessionId].last_activity = t]
    ELSE [table EXCEPT ![sessionId] =
            [exists |-> TRUE, messages |-> <<>>, created_at |-> t, last_activity |-> t]]

\* a store that never trims
addMessageUntrimmed(table, sessionId, message, t) ==
    LET got == getSession(table, sessionId, t)
    IN [got EXCEPT ![sessionId].messages = Append(@, message),
                   ![sessionId].last_activity = t]

\* a store whose sessions share one array of messages
addMessageShared(table, sessionId, message, t) ==
    LET got == getSession(table, sessionId, t)
    IN [id \in DOMAIN got |->
          IF got[id].exists
          THEN [got[id] EXCEPT !.messages = Append(@, message)]
          ELSE got[id]]

\* addMessage: the table after the call
addMessage(table, sessionId, message, t) ==
    LET got == getSession(table, sessionId, t)
        pushed == Append(got[sessionId].messages, message)
        kept == IF Len(pushed) > maxMessagesPerSession
                THEN SubSeq(pushed, Len(pushed) - maxMessagesPerSession + 1, Len(pushed))
                ELSE pushed
    IN [got EXCEPT ![sessionId].messages = kept, ![sessionId].last_activity = t]

\* getRecentMessages: what it returns
getRecentMessages(table, sessionId, limit) ==
    IF ~table[sessionId].exists THEN <<>>
    ELSE sliceLast(table[sessionId].messages, limit)

\* a memory that hands out no history
getConversationContextNone(table, sessionId, includeLastN) == <<>>

getConversationContext(table, sessionId, includeLastN) ==
    IF ~table[sessionId].exists \/ Len(table[sessionId].messages) = 0 THEN <<>>
    ELSE sliceLast(table[sessionId].messages, includeLastN)

\* a store that forgets every session when one is cleared
clearSessionAll(table, sessionId) ==
    [deleted |-> table[sessionId].exists,
     table |-> [id \in DOMAIN table |-> NoSession]]

\* clearSession: what it returns and the table after the call
clearSession(table, sessionId) ==
    [deleted |-> table[sessionId].exists,
     table |-> [table EXCEPT ![sessionId] = NoSession]]

formatTimeAgo(timestamp, t) ==
    LET diffInMs == t - timestamp
        diffInMinutes == diffInMs \div (1000 * 60)
        diffInHours == diffInMs \div (1000 * 60 * 60)
        diffInDays == diffInMs \div (1000 * 60 * 60 * 24)
    IN IF diffInDays > 0 THEN <<ToString(diffInDays), "d ago">>
       ELSE IF diffInHours > 0 THEN <<ToString(diffInHours), "h ago">>
       ELSE IF diffInMinutes > 0 THEN <<ToString(diffInMinutes), "m ago">>
       ELSE <<"just now">>

NoHistory == <<"No previous conversation history.">>

\* String.prototype.substring(0, 100) of a message content: the contents of
\* the model are shorter than 100 characters
substring100(content) == content

generateMemorySummary(table, sessionId, t) ==
    IF ~table[sessionId].exists \/ Len(table[sessionId].messages) = 0 THEN NoHistory
    ELSE LET messages == table[sessionId].messages
             lastMessage == messages[Len(messages)]
             userMessages == sliceLast(SelectSeq(messages, LAMBDA m : m.role = "user"), 2)
             topics == [i \in 1..Len(userMessages) |->
                          <<"\"">> \o substring100(userMessages[i].content) \o <<"...\"">>]
         IN <<"Session Info: ", ToString(Len(messages)), " total messages. ">>
            \o (IF Len(userMessages) > 0
                THEN <<"Recent topics: ">> \o join(topics, <<", ">>) ELSE NoText)
            \o <<" Last activity: ">> \o formatTimeAgo(lastMessage.timestamp, t)

\* AgentController.generateSystemPrompt
generateSystemPrompt(memorySummary) ==
    <<"You are an intelligent AI assistant ... ## Memory Context\n">>
    \o memorySummary
    \o <<"\n\n## Instructions ... reference previous context when relevant.">>

(***************************************************************************)
(* RAGService: the context built from the retrieved matches.  A score is   *)
(* in hundredths (0.7 is 70).                                              *)
(***************************************************************************)
relevanceThreshold == 70

SearchResult(content, score, source) ==
    [content |-> content, score |-> score, source |-> source]

Matches == { SearchResult(<<"chunk of a.md">>, 80, "a.md"),
             SearchResult(<<"chunk of b.md">>, 70, "b.md"),
             SearchResult(<<"chunk of c.md">>, 60, "c.md") }

MatchSeqs == UNION { [1..n -> Matches] : n \in 0..MaxMatches }

\* createContext: the matches kept for the prompt
contextDocuments(documents) ==
    SelectSeq(documents, LAMBDA doc : doc.score > relevanceThreshold)

\* PromptService.generateRAGPrompt(query, context)
generateRAGPrompt(query, contextText) ==
    <<"You are an expert AI assistant ... ## Available Context:\n">>
    \o contextText
    \o <<"\n\n\n\n## User Question:\n", query, "\n\n## Response: ...">>

\* createContext, lines 138-145: the text of the matches kept
contextText(kept) ==
    join([i \in 1..Len(kept) |->
             <<"[Source ", ToString(i), ": ", kept[i].source, "]\n">>
             \o kept[i].content \o <<"\n">>],
         <<"\n---\n\n">>)

\* createContext: the prompt
contextualPrompt(documents, query) ==
    generateRAGPrompt(query, contextText(contextDocuments(documents)))

RECURSIVE unique(_)
\* the elements of a sequence in the order of their first occurrence (a Set)
unique(q) ==
    IF Len(q) = 0 THEN <<>>
    ELSE LET front == unique(SubSeq(q, 1, Len(q) - 1))
             last == q[Len(q)]
         IN IF \E i \in 1..Len(front) : front[i] = last THEN front
            ELSE Append(front, last)

\* extractSources
extractSources(documents) ==
    unique([i \in 1..Len(documents) |-> documents[i].source])

(***************************************************************************)
(* The collaborators.  A call is logged when it is made; its outcome is    *)
(* drawn when it returns.                                                  *)
(***************************************************************************)
Call(service, messages, system_prompt, input) ==
    [service |-> service, messages |-> messages,
     system_prompt |-> system_prompt, input |-> input]

CompletionTexts == { <<"completion text">> }

\* the number of vectors loadDocuments stores
DocumentVectors == 2

\* an error as the request boundary sees it
ApiError(message, status, code) ==
    [isApiError |-> TRUE, message |-> message, status |-> status, code |-> code]
PlainError(message) ==
    [isApiError |-> FALSE, message |-> message, status |-> 500, code |-> ""]

\* OpenAIService.generateResponse, a failure of the provider
completionError == ApiError(<<"OpenAI API Error: ", "provider message">>, 500, "OPENAI_API_ERROR")
\* OpenAIService.generateEmbedding, a failure of the provider
embeddingError ==
    ApiError(<<"OpenAI Embedding API Error: ", "provider message">>, 500, "OPENAI_EMBEDDING_ERROR")
\* a failure of the vector index: rethrown as it is
indexError == PlainError(<<"index provider message">>)

(***************************************************************************)
(* Responses.  status 0: no response yet.                                  *)
(***************************************************************************)
NoResponse ==
    [status |-> 0, reply |-> NoText, sources |-> <<>>, plugins_used |-> <<>>,
     error |-> NoText, code |-> "", result |-> NoExecutionResult]

\* res.status(200).json(response) of handleMessage
messageResponse(reply, sources, pluginsUsed) ==
    [NoResponse EXCEPT !.status = 200, !.reply = reply, !.sources = sources,
                       !.plugins_used = pluginsUsed]

\* res.status(200).json(...) of testPlugin
testPluginResponse(result) == [NoResponse EXCEPT !.status = 200, !.result = result]

\* an error handler that answers every error alike
errorResponseUnclassified(error) ==
    [NoResponse EXCEPT !.status = 500, !.error = <<"Internal server error">>]

\* Server.initializeErrorHandling: the global error handler (production)
errorResponse(error) ==
    IF error.isApiError
    THEN [NoResponse EXCEPT !.status = error.status, !.error = error.message,
                            !.code = error.code]
    ELSE [NoResponse EXCEPT !.status = 500, !.error = <<"Internal server error">>]

(***************************************************************************)
(* AgentController.handleMessage: the pieces of the handler                *)
(***************************************************************************)
\* lines 107-109: the reply text of one successful plugin
pluginReplyText(result) ==
    IF result.formattedResponse # NoText THEN result.formattedResponse
    ELSE IF result.message # NoText THEN result.message
    ELSE <<"Plugin executed successfully">>

\* line 101
successfulPlugins(pluginResults) ==
    SelectSeq(pluginResults, LAMBDA x : x.result.success)

\* a handler that tests the message before it looks at the plugins
selectStrategyRagFirst(pluginResults, useRAG) ==
    IF useRAG THEN "RAG"
    ELSE IF Len(successfulPlugins(pluginResults)) > 0 THEN "PLUGIN"
    ELSE "CONVERSATIONAL"

\* a handler without the RAG branch
selectStrategyNoRag(pluginResults, useRAG) ==
    IF Len(successfulPlugins(pluginResults)) > 0 THEN "PLUGIN" ELSE "CONVERSATIONAL"

\* lines 103-136: the branch the handler takes
selectStrategy(pluginResults, useRAG) ==
    IF Len(successfulPlugins(pluginResults)) > 0 THEN "PLUGIN"
    ELSE IF useRAG THEN "RAG"
    ELSE "CONVERSATIONAL"

\* a reply made of every plugin's text, failed or not
pluginResponsesAll(pluginResults) ==
    join([i \in 1..Len(pluginResults) |-> pluginReplyText(pluginResults[i].result)],
         <<"\n\n">>)

\* lines 107-109: the reply of the PLUGIN branch
pluginResponses(pluginResults) ==
    LET ok == successfulPlugins(pluginResults)
    IN join([i \in 1..Len(ok) |-> pluginReplyText(ok[i].result)], <<"\n\n">>)

\* a handler that lists every plugin that ran
pluginsUsedAll(pluginResults) ==
    [i \in 1..Len(pluginResults) |-> pluginResults[i].pluginName]

\* line 116
pluginsUsed(pluginResults) ==
    LET ok == successfulPlugins(pluginResults)
    IN [i \in 1..Len(ok) |-> ok[i].pluginName]

(***************************************************************************)
(* State                                                                   *)
(***************************************************************************)
\* the request frames: MaxRequests of them are served one after the other,
\* MaxInFlight of them concurrently
Reqs == 1..MaxInFlight
Messages == {"Calculate 15 + 27", "how to implement a REST API", "How do I cook rice"}
UnknownPlugin == "unknown"
InvNames == PluginNames \cup {UnknownPlugin}

MessageValues == {Undefined, Num("42"), Str(""), Str("   "), Str(LongMessage)}
                 \cup { Str(m) : m \in Messages }
SessionIdValues == {Undefined, Num("7"), Str(LongSessionId)}
                   \cup { Str(id) : id \in SessionIds }
Bodies == [message : MessageValues, session_id : SessionIdValues]

\* validateRequest and shouldUseRAG of the inputs, computed once
validationTable == { <<body, validateRequest(body)>> : body \in Bodies }
shouldUseRAGTable == { <<m, shouldUseRAG(m)>> : m \in Messages }
validationOf(body) == (CHOOSE x \in validationTable : x[1] = body)[2]
shouldUseRAGOf(m) == (CHOOSE x \in shouldUseRAGTable : x[1] = m)[2]

VARIABLES
    now,        \* the clock, in milliseconds
    registry,   \* CorePluginRegistry.plugins: the registered names, in order
    registryOps,\* the number of register and unregister calls made
    req,        \* per request: the handler's position and its local variables
    inv,        \* per request and plugin: the invocation made by executePlugin
    calls,      \* per request: the calls made to the collaborators, in order
    response,   \* per request: what was sent back
    sessions,   \* MemoryService.sessions
    rag,        \* RAGService.isInitialized and the vector index's size
    appended,   \* per session: the addMessage calls made on it since it was created
    ret,        \* the last call made on the memory store and what it returned
    chunker,    \* PineconeService.chunkText: its arguments and local variables
    prompter,   \* PromptService.generateSystemPrompt: its arguments and what it returned
    track,      \* per request: the session's messages when it began, whether
                \* another request or a clear of the session overlapped it, and
                \* its plugins in the order in which their executes settled;
                \* per session: the last clear that found the session
    cleanupTimer, \* MemoryService.cleanupInterval: when the sweep is due next and
                \* the number of sweeps run
    storer      \* PineconeService.storeDocuments: its argument and local variables

vars == <<now, registry, registryOps, req, inv, calls, response, sessions, rag,
          appended, ret, chunker, prompter, track, cleanupTimer, storer>>

NoFrame ==
    [pc |-> "idle", handler |-> "", message |-> "", session_id |-> "",
     shouldUseRAG |-> FALSE,
     canHandle |-> [p \in PluginNames |-> "false"],
     applicablePlugins |-> <<>>,
     strategy |-> "NONE", relevantDocuments |-> <<>>,
     startedAt |-> 0]

NoPromise == [state |-> "none", value |-> NoExecutionResult, reason |-> NoError]

NoInvocation ==
    [startTime |-> 0, deadline |-> 0, timer |-> "none", exec |-> "none",
     outcome |-> NoOutcome, promise |-> NoPromise]

\* no call on the memory store yet
NoReturn == [op |-> "", id |-> "", n |-> 0, value |-> <<>>, threw |-> FALSE]

\* chunkText is not running
NoChunker ==
    [pc |-> "idle", text |-> <<>>, maxChunkSize |-> 0, overlap |-> 0,
     currentPosition |-> 0, windows |-> <<>>, chunks |-> <<>>, returned |-> <<>>]

\* generateSystemPrompt is not running
NoPrompter ==
    [pc |-> "idle", memorySummary |-> <<>>, ragContext |-> <<>>,
     conversationHistory |-> <<>>, userQuery |-> <<>>, maxContextTokens |-> 0,
     returned |-> <<>>]

\* storeDocuments is not running
NoStorer ==
    [pc |-> "idle", documents |-> <<>>, doc |-> 0, i |-> 0, vectors |-> <<>>,
     embedded |-> <<>>, upserted |-> <<>>]

\* no request has begun and no session was cleared
NoTrack ==
    [before |-> [r \in Reqs |-> <<>>],
     overlapped |-> [r \in Reqs |-> FALSE],
     completed |-> [r \in Reqs |-> <<>>],
     cleared |-> [id \in SessionIds |-> [found |-> FALSE, inFlight |-> {}, idle |-> {}]]]

\* the server after construction, no call made
Quiescent ==
    /\ now = 0
    /\ registry = <<"weather", "math">>
    /\ registryOps = 0
    /\ req = [r \in Reqs |-> NoFrame]
    /\ inv = [r \in Reqs |-> [p \in InvNames |-> NoInvocation]]
    /\ calls = [r \in Reqs |-> <<>>]
    /\ response = [r \in Reqs |-> NoResponse]
    /\ sessions = [id \in SessionIds |-> NoSession]
    /\ rag = [isInitialized |-> FALSE, vectorCount |-> 0]
    /\ appended = [id \in SessionIds |-> 0]
    /\ ret = NoReturn
    /\ track = NoTrack
    /\ cleanupTimer = [due |-> cleanupInterval, sweeps |-> 0]
    /\ storer = NoStorer

Init == Quiescent /\ chunker = NoChunker /\ prompter = NoPrompter

(***************************************************************************)
(* The registry's operations.  The controller registers its plugins when   *)
(* it is constructed; further calls are made before requests are served.   *)
(***************************************************************************)
Startup == \A r \in Reqs : req[r].pc = "idle"

Register(name) ==
    /\ Startup
    /\ registryOps < MaxRegistryOps
    /\ registry' = register(registry, name)
    /\ registryOps' = registryOps + 1
    /\ UNCHANGED <<now, req, inv, calls, response, sessions, rag>>
    /\ UNCHANGED <<appended, ret, chunker, prompter, track, cleanupTimer, storer>>

Unregister(name) ==
    /\ Startup
    /\ registryOps < MaxRegistryOps
    /\ registry' = unregister(registry, name)
    /\ registryOps' = registryOps + 1
    /\ UNCHANGED <<now, req, inv, calls, response, sessions, rag>>
    /\ UNCHANGED <<appended, ret, chunker, prompter, track, cleanupTimer, storer>>

(***************************************************************************)
(* PluginExecutionService.executePlugin up to its await: the invocation    *)
(* it leaves behind.  executeThrows: the plugin's execute throws before it *)
(* returns a promise; the executor of the new Promise turns that into a    *)
(* rejection, and the timer stays set.                                     *)
(***************************************************************************)
executeThrew(pluginName) == Error(<<pluginName, " execute threw">>)

executePlugin(reg, pluginName, t, executeThrows) ==
    IF getPlugin(reg, pluginName) = ""
    THEN [NoInvocation EXCEPT !.startTime = t,
                              !.promise = executePluginNotFound(pluginName, t, t)]
    ELSE [startTime |-> t,
          deadline |-> timerDeadline(t, defaultTimeout),
          timer |-> "armed",
          exec |-> IF executeThrows THEN "threw" ELSE "pending",
          outcome |-> IF executeThrows THEN Faulted(executeThrew(pluginName)) ELSE NoOutcome,
          promise |-> IF executeThrows
                      THEN executePluginCatch(pluginName, executeThrew(pluginName), t, t)
                      ELSE Pending]

\* a dispatcher that starts each plugin when the one before it is due
executeAllInTurn(reg, plugins, t, throwers) ==
    [p \in InvNames |->
        IF p \in SeqToSet(plugins)
        THEN LET i == CHOOSE k \in 1..Len(plugins) : plugins[k] = p
             IN executePlugin(reg, p, t + (i - 1) * defaultTimeout, p \in throwers)
        ELSE NoInvocation]

\* executeApplicablePlugins, lines 81-83: every applicable plugin is started
executeAll(reg, plugins, t, throwers) ==
    [p \in InvNames |->
        IF p \in SeqToSet(plugins) THEN executePlugin(reg, p, t, p \in throwers)
        ELSE NoInvocation]

\* a dispatcher that hands out the results last plugin first
executionResultsReversed(plugins, invocations) ==
    [i \in 1..Len(plugins) |->
        allSettledResult(plugins[Len(plugins) + 1 - i],
                         invocations[plugins[Len(plugins) + 1 - i]].promise)]

\* executeApplicablePlugins, lines 86-107: what it returns
executionResults(plugins, invocations) ==
    [i \in 1..Len(plugins) |-> allSettledResult(plugins[i], invocations[plugins[i]].promise)]

\* the promises of a request's invocations once their results have been read:
\* nothing refers to them any more
consumed(invocations) ==
    [p \in InvNames |-> [invocations[p] EXCEPT !.promise = NoPromise, !.startTime = 0,
                                               !.outcome = NoOutcome]]

AllSettled(r) ==
    \A p \in SeqToSet(req[r].applicablePlugins) : inv[r][p].promise.state # "pending"

(***************************************************************************)
(* The request boundary: handleMessage's catch hands the error to the      *)
(* global error handler, which sends the response.                         *)
(***************************************************************************)
\* a handler that answers a failure of the RAG branch conversationally
FailOver(r, frame, error) ==
    IF frame.strategy = "RAG"
    THEN /\ req' = [req EXCEPT ![r] = [frame EXCEPT !.pc = "completion",
                                                    !.strategy = "CONVERSATIONAL"]]
         /\ response' = response
    ELSE /\ req' = [req EXCEPT ![r] = [frame EXCEPT !.pc = "done"]]
         /\ response' = [response EXCEPT ![r] = errorResponse(error)]

Fail(r, frame, error) ==
    /\ req' = [req EXCEPT ![r] = [frame EXCEPT !.pc = "done"]]
    /\ response' = [response EXCEPT ![r] = errorResponse(error)]

Log(r, call) == calls' = [calls EXCEPT ![r] = Append(@, call)]

(***************************************************************************)
(* handleMessage, lines 48-77: validation, the RAG test, and               *)
(* executeApplicablePlugins up to its await.                               *)
(*   canHandle[p]: what plugin p's canHandle does for this context;        *)
(*   executeThrows: the plugins whose execute throws when it is called.    *)
(***************************************************************************)
\* the requests in progress on a session
inProgress(sessionId) ==
    { q \in Reqs : req[q].pc \notin {"idle", "done", "retired"}
                    /\ req[q].session_id = sessionId }

\* request r begins on a session: what the session holds is noted, and that
\* r and the requests in progress on the session overlap
began(r, sessionId) ==
    [track EXCEPT
       !.before[r] = getRecentMessages(sessions, sessionId, maxMessagesPerSession),
       !.overlapped = [q \in Reqs |->
                         IF q = r THEN inProgress(sessionId) # {}
                         ELSE IF q \in inProgress(sessionId) THEN TRUE
                         ELSE @[q]]]

HandleMessage(r, body, canHandle, executeThrows) ==
    /\ req[r].pc = "idle"
    /\ \A p \in PluginNames : ~has(registry, p) => canHandle[p] = "false"
    /\ LET invalid == validationOf(body)
           frame == [NoFrame EXCEPT !.handler = "handleMessage"]
       IN IF invalid # ""
          THEN /\ executeThrows = {}
               /\ \A p \in PluginNames : canHandle[p] = "false"
               /\ Fail(r, frame, ApiError(<<invalid>>, 400, "VALIDATION_ERROR"))
               /\ UNCHANGED <<now, registry, registryOps, inv, calls, sessions, rag>>
          ELSE LET found == findApplicablePlugins(registry, canHandle)
                   started == [frame EXCEPT
                                 !.message = body.message.str,
                                 !.session_id = body.session_id.str,
                                 !.shouldUseRAG = shouldUseRAGOf(body.message.str),
                                 !.canHandle = canHandle,
                                 !.startedAt = now]
               IN IF found.threw
                  THEN /\ executeThrows = {}
                       /\ Fail(r, started, PlainError(<<"canHandle threw">>))
                       /\ UNCHANGED <<now, registry, registryOps, inv, calls, sessions, rag>>
                  ELSE /\ executeThrows \subseteq SeqToSet(found.plugins)
                       /\ req' = [req EXCEPT ![r] =
                                    [started EXCEPT !.pc = "plugins",
                                                    !.applicablePlugins = found.plugins]]
                       /\ inv' = [inv EXCEPT ![r] =
                                    executeAll(registry, found.plugins, now, executeThrows)]
                       /\ UNCHANGED <<now, registry, registryOps, calls, response,
                                      sessions, rag>>
    /\ track' = IF validationOf(body) = "" /\ ~findApplicablePlugins(registry, canHandle).threw
                THEN began(r, body.session_id.str)
                ELSE track
    /\ UNCHANGED <<appended, ret, chunker, prompter, cleanupTimer, storer>>

(***************************************************************************)
(* executeWithTimeout, lines 123-131: the plugin's promise settles.  The   *)
(* handler clears the timer and settles the race; executePlugin wraps the  *)
(* outcome.  It also runs when the timer has already fired, and when the   *)
(* results have been read: then nothing observes the outcome any more.     *)
(***************************************************************************)
ExecuteOutcomes(p) ==
    { Resolved(x) : x \in PluginResultsOf(p) } \cup { Faulted(e) : e \in PluginFaultsOf(p) }

PluginSettles(r, p, outcome) ==
    /\ inv[r][p].exec = "pending"
    /\ LET i == inv[r][p]
           wrapped == IF outcome.resolved
                      THEN executePluginReturn(p, outcome.result, i.startTime, now)
                      ELSE executePluginCatch(p, outcome.fault, i.startTime, now)
       IN inv' = [inv EXCEPT ![r][p] =
                    [i EXCEPT !.exec = "settled",
                              !.outcome = IF i.promise.state = "none" THEN NoOutcome
                                          ELSE outcome,
                              !.timer = IF i.timer = "armed" THEN "cleared" ELSE i.timer,
                              !.promise = settle(i.promise, wrapped)]]
    /\ track' = IF inv[r][p].promise.state = "pending"
                THEN [track EXCEPT !.completed[r] = Append(@, p)]
                ELSE track
    /\ UNCHANGED <<now, registry, registryOps, req, calls, response, sessions, rag>>
    /\ UNCHANGED <<appended, ret, chunker, prompter, cleanupTimer, storer>>

(***************************************************************************)
(* executeWithTimeout, lines 119-121: the timer fires                      *)
(***************************************************************************)
\* a timer that is never cleared and whose rejection replaces the result
TimerFiresLate(r, p) ==
    /\ inv[r][p].timer \in {"armed", "cleared"}
    /\ inv[r][p].deadline <= now
    /\ LET i == inv[r][p]
       IN inv' = [inv EXCEPT ![r][p] =
                    [i EXCEPT !.timer = "fired",
                              !.promise = settleAgain(i.promise,
                                   executePluginCatch(p, timeoutError(p, defaultTimeout),
                                                      i.startTime, now))]]
    /\ UNCHANGED <<now, registry, registryOps, req, calls, response, sessions, rag>>
    /\ UNCHANGED <<appended, ret, chunker, prompter, track, cleanupTimer, storer>>

TimerFires(r, p) ==
    /\ inv[r][p].timer = "armed"
    /\ inv[r][p].deadline <= now
    /\ LET i == inv[r][p]
       IN inv' = [inv EXCEPT ![r][p] =
                    [i EXCEPT !.timer = "fired",
                              !.promise = settle(i.promise,
                                   executePluginCatch(p, timeoutError(p, defaultTimeout),
                                                      i.startTime, now))]]
    /\ UNCHANGED <<now, registry, registryOps, req, calls, response, sessions, rag>>
    /\ UNCHANGED <<appended, ret, chunker, prompter, track, cleanupTimer, storer>>

(***************************************************************************)
(* handleMessage, lines 77-136: executeApplicablePlugins has returned.     *)
(* The user message is stored, the context is read and the strategy is     *)
(* chosen.  The PLUGIN branch has no await: it runs on to the response.    *)
(***************************************************************************)
PluginsReturn(r) ==
    /\ req[r].pc = "plugins"
    /\ AllSettled(r)
    /\ LET f == req[r]
           pluginResults == executionResults(f.applicablePlugins, inv[r])
           table == addMessage(sessions, f.session_id,
                               Message("user", <<f.message>>, now), now)
           conversationHistory == getConversationContext(table, f.session_id, contextWindow)
           memorySummary == generateMemorySummary(table, f.session_id, now)
           systemPrompt == generateSystemPrompt(memorySummary)
           strategy == selectStrategy(pluginResults, f.shouldUseRAG)
           frame == [f EXCEPT !.strategy = strategy, !.canHandle = NoFrame.canHandle,
                              !.applicablePlugins = <<>>, !.startedAt = 0]
       IN CASE strategy = "PLUGIN" ->
                 LET content == pluginResponses(pluginResults)
                 IN /\ sessions' = addMessage(table, f.session_id,
                                              Message("assistant", content, now), now)
                    /\ req' = [req EXCEPT ![r] = [frame EXCEPT !.pc = "done"]]
                    /\ response' = [response EXCEPT ![r] =
                          messageResponse(content, <<>>, pluginsUsed(pluginResults))]
                    /\ UNCHANGED <<calls>>
            [] strategy = "RAG" ->
                 /\ sessions' = table
                 /\ IF rag.isInitialized
                    THEN /\ req' = [req EXCEPT ![r] = [frame EXCEPT !.pc = "rag_embedding"]]
                         /\ Log(r, Call("embedding", <<>>, NoText, <<f.message>>))
                    ELSE /\ req' = [req EXCEPT ![r] =
                                      [frame EXCEPT !.pc = "rag_initializeIndex"]]
                         /\ Log(r, Call("index.listIndexes", <<>>, NoText, NoText))
                 /\ UNCHANGED <<response>>
            [] strategy = "CONVERSATIONAL" ->
                 /\ sessions' = table
                 /\ req' = [req EXCEPT ![r] = [frame EXCEPT !.pc = "completion"]]
                 /\ Log(r, Call("completion", conversationHistory, systemPrompt, NoText))
                 /\ UNCHANGED <<response>>
    /\ inv' = [inv EXCEPT ![r] = consumed(inv[r])]
    /\ UNCHANGED <<now, registry, registryOps, rag>>
    /\ UNCHANGED <<appended, ret, chunker, prompter, track, cleanupTimer, storer>>

(***************************************************************************)
(* RAGService.generateResponse, one action per await.                      *)
(*   initialize: initializeIndex, getIndexStats, loadDocuments;            *)
(*   searchSimilar: generateEmbedding, index.query;                        *)
(*   generateContextualResponse: the completion.                           *)
(* ok: whether the collaborator's call succeeds.                           *)
(***************************************************************************)
RagInitializeIndex(r, ok) ==
    /\ req[r].pc = "rag_initializeIndex"
    /\ IF ok
       THEN /\ req' = [req EXCEPT ![r].pc = "rag_getIndexStats"]
            /\ Log(r, Call("index.describeIndexStats", <<>>, NoText, NoText))
            /\ UNCHANGED <<response>>
       ELSE /\ Fail(r, req[r], indexError)
            /\ UNCHANGED <<calls>>
    /\ UNCHANGED <<now, registry, registryOps, inv, sessions, rag>>
    /\ UNCHANGED <<appended, ret, chunker, prompter, track, cleanupTimer, storer>>

RagGetIndexStats(r, ok) ==
    /\ req[r].pc = "rag_getIndexStats"
    /\ IF ~ok
       THEN /\ Fail(r, req[r], indexError)
            /\ UNCHANGED <<calls, rag>>
       ELSE IF rag.vectorCount = 0
       THEN /\ req' = [req EXCEPT ![r].pc = "rag_loadDocuments"]
            /\ Log(r, Call("index.upsert", <<>>, NoText, NoText))
            /\ UNCHANGED <<response, rag>>
       ELSE /\ rag' = [rag EXCEPT !.isInitialized = TRUE]
            /\ req' = [req EXCEPT ![r].pc = "rag_embedding"]
            /\ Log(r, Call("embedding", <<>>, NoText, <<req[r].message>>))
            /\ UNCHANGED <<response>>
    /\ UNCHANGED <<now, registry, registryOps, inv, sessions>>
    /\ UNCHANGED <<appended, ret, chunker, prompter, track, cleanupTimer, storer>>

\* loadDocuments returns.  The id of a vector is its source and chunk number
\* (pinecone.service.ts line 151): a second load replaces the vectors of the first
RagLoadDocuments(r, ok) ==
    /\ req[r].pc = "rag_loadDocuments"
    /\ IF ok
       THEN /\ rag' = [isInitialized |-> TRUE, vectorCount |-> DocumentVectors]
            /\ req' = [req EXCEPT ![r].pc = "rag_embedding"]
            /\ Log(r, Call("embedding", <<>>, NoText, <<req[r].message>>))
            /\ UNCHANGED <<response>>
       ELSE /\ Fail(r, req[r], indexError)
            /\ UNCHANGED <<calls, rag>>
    /\ UNCHANGED <<now, registry, registryOps, inv, sessions>>
    /\ UNCHANGED <<appended, ret, chunker, prompter, track, cleanupTimer, storer>>

\* a searchSimilar whose embedding failure is answered conversationally
RagEmbeddingFallsBack(r, ok) ==
    /\ req[r].pc = "rag_embedding"
    /\ IF ok
       THEN /\ req' = [req EXCEPT ![r].pc = "rag_query"]
            /\ Log(r, Call("index.query", <<>>, NoText, <<req[r].message>>))
            /\ UNCHANGED <<response>>
       ELSE /\ FailOver(r, req[r], embeddingError)
            /\ Log(r, Call("completion",
                           getConversationContext(sessions, req[r].session_id, contextWindow),
                           generateSystemPrompt(
                               generateMemorySummary(sessions, req[r].session_id, now)),
                           NoText))
    /\ UNCHANGED <<now, registry, registryOps, inv, sessions, rag>>
    /\ UNCHANGED <<appended, ret, chunker, prompter, track, cleanupTimer, storer>>

RagEmbedding(r, ok) ==
    /\ req[r].pc = "rag_embedding"
    /\ IF ok
       THEN /\ req' = [req EXCEPT ![r].pc = "rag_query"]
            /\ Log(r, Call("index.query", <<>>, NoText, <<req[r].message>>))
            /\ UNCHANGED <<response>>
       ELSE /\ Fail(r, req[r], embeddingError)
            /\ UNCHANGED <<calls>>
    /\ UNCHANGED <<now, registry, registryOps, inv, sessions, rag>>
    /\ UNCHANGED <<appended, ret, chunker, prompter, track, cleanupTimer, storer>>

\* index.query returns: matches are the matches found, createContext builds
\* the prompt and the completion is asked for
RagQuery(r, ok, matches) ==
    /\ req[r].pc = "rag_query"
    /\ IF ok
       THEN /\ req' = [req EXCEPT ![r].pc = "rag_completion",
                                  ![r].relevantDocuments = matches]
            /\ Log(r, Call("completion",
                           <<Message("user", contextualPrompt(matches, req[r].message), now)>>,
                           NoText, NoText))
            /\ UNCHANGED <<response>>
       ELSE /\ matches = <<>>
            /\ Fail(r, req[r], indexError)
            /\ UNCHANGED <<calls>>
    /\ UNCHANGED <<now, registry, registryOps, inv, sessions, rag>>
    /\ UNCHANGED <<appended, ret, chunker, prompter, track, cleanupTimer, storer>>

(***************************************************************************)
(* handleMessage, lines 138-159: the reply is stored and sent              *)
(***************************************************************************)
\* a handler that sends the reply without storing it
RespondUnrecorded(r, content, sources) ==
    /\ sessions' = sessions
    /\ req' = [req EXCEPT ![r].pc = "done"]
    /\ response' = [response EXCEPT ![r] = messageResponse(content, sources, <<>>)]

Respond(r, content, sources) ==
    /\ sessions' = addMessage(sessions, req[r].session_id,
                              Message("assistant", content, now), now)
    /\ req' = [req EXCEPT ![r].pc = "done"]
    /\ response' = [response EXCEPT ![r] = messageResponse(content, sources, <<>>)]

\* the completion asked for by the RAG branch returns
RagCompletion(r, ok, content) ==
    /\ req[r].pc = "rag_completion"
    /\ IF ok
       THEN Respond(r, content, extractSources(req[r].relevantDocuments))
       ELSE /\ Fail(r, req[r], completionError)
            /\ UNCHANGED <<sessions>>
    /\ UNCHANGED <<now, registry, registryOps, inv, calls, rag>>
    /\ UNCHANGED <<appended, ret, chunker, prompter, track, cleanupTimer, storer>>

\* a handler that stores the failure of the completion as the assistant's message
CompletionRecordsFailure(r, ok, content) ==
    /\ req[r].pc = "completion"
    /\ IF ok
       THEN Respond(r, content, <<>>)
       ELSE /\ Fail(r, req[r], completionError)
            /\ sessions' = addMessage(sessions, req[r].session_id,
                                      Message("assistant", completionError.message, now), now)
    /\ UNCHANGED <<now, registry, registryOps, inv, calls, rag>>
    /\ UNCHANGED <<appended, ret, chunker, prompter, track, cleanupTimer, storer>>

\* the completion asked for by the conversational branch returns
Completion(r, ok, content) ==
    /\ req[r].pc = "completion"
    /\ IF ok
       THEN Respond(r, content, <<>>)
       ELSE /\ Fail(r, req[r], completionError)
            /\ UNCHANGED <<sessions>>
    /\ UNCHANGED <<now, registry, registryOps, inv, calls, rag>>
    /\ UNCHANGED <<appended, ret, chunker, prompter, track, cleanupTimer, storer>>

(***************************************************************************)
(* AgentController.testPlugin: executePlugin for one name                  *)
(***************************************************************************)
PluginNameValues == {Undefined} \cup { Str(n) : n \in InvNames }
TestQueryValues == {Undefined, Str("Calculate 15 + 27")}

TestPlugin(r, plugin_name, test_query, executeThrows) ==
    /\ req[r].pc = "idle"
    /\ LET frame == [NoFrame EXCEPT !.handler = "testPlugin"]
       IN IF Falsy(plugin_name) \/ Falsy(test_query)
          THEN /\ ~executeThrows
               /\ Fail(r, frame,
                       ApiError(<<"plugin_name and test_query are required">>,
                                400, "MISSING_PARAMETERS"))
               /\ UNCHANGED <<inv>>
          ELSE /\ executeThrows => has(registry, plugin_name.str)
               /\ req' = [req EXCEPT ![r] =
                            [frame EXCEPT !.pc = "test_wait",
                                          !.message = test_query.str,
                                          !.applicablePlugins = <<plugin_name.str>>,
                                          !.startedAt = now]]
               /\ inv' = [inv EXCEPT ![r][plugin_name.str] =
                            executePlugin(registry, plugin_name.str, now, executeThrows)]
               /\ UNCHANGED <<response>>
    /\ UNCHANGED <<now, registry, registryOps, calls, sessions, rag>>
    /\ UNCHANGED <<appended, ret, chunker, prompter, track, cleanupTimer, storer>>

\* executePlugin has returned
TestPluginReturn(r) ==
    /\ req[r].pc = "test_wait"
    /\ AllSettled(r)
    /\ LET promise == inv[r][req[r].applicablePlugins[1]].promise
       IN IF promise.state = "fulfilled"
          THEN /\ req' = [req EXCEPT ![r].pc = "done"]
               /\ response' = [response EXCEPT ![r] = testPluginResponse(promise.value)]
          ELSE Fail(r, req[r], PlainError(promise.reason.message))
    /\ inv' = [inv EXCEPT ![r] = consumed(inv[r])]
    /\ UNCHANGED <<now, registry, registryOps, calls, sessions, rag>>
    /\ UNCHANGED <<appended, ret, chunker, prompter, track, cleanupTimer, storer>>

(***************************************************************************)
(* A request that has been answered is forgotten.                          *)
(***************************************************************************)
Retire(r) ==
    /\ req[r].pc = "done"
    /\ req' = [req EXCEPT ![r] = [NoFrame EXCEPT !.pc = "retired"]]
    /\ inv' = [inv EXCEPT ![r] = [p \in InvNames |-> NoInvocation]]
    /\ calls' = [calls EXCEPT ![r] = <<>>]
    /\ response' = [response EXCEPT ![r] = NoResponse]
    /\ UNCHANGED <<now, registry, registryOps, sessions, rag>>
    /\ UNCHANGED <<appended, ret, chunker, prompter, track, cleanupTimer, storer>>

(***************************************************************************)
(* Time passes: only when no timer is due and no continuation is ready to  *)
(* run, and never past the next timer's deadline.                          *)
(***************************************************************************)
Armed == { x \in Reqs \X InvNames : inv[x[1]][x[2]].timer = "armed" }

Ready(r) == req[r].pc \in {"plugins", "test_wait"} /\ AllSettled(r)

Tick ==
    /\ Armed # {}
    /\ \A x \in Armed : inv[x[1]][x[2]].deadline > now
    /\ \A r \in Reqs : ~Ready(r)
    /\ LET next == CHOOSE d \in { inv[x[1]][x[2]].deadline : x \in Armed } :
                      \A x \in Armed : d <= inv[x[1]][x[2]].deadline
       IN now' = IF now + TickStep < next THEN now + TickStep ELSE next
    /\ UNCHANGED <<registry, registryOps, req, inv, calls, response, sessions, rag>>
    /\ UNCHANGED <<appended, ret, chunker, prompter, track, cleanupTimer, storer>>

(***************************************************************************)
(* The specification: requests are served one after the other.             *)
(***************************************************************************)
Admit(r) ==
    /\ r <= MaxRequests
    /\ \A q \in Reqs \ {r} : req[q].pc \in {"idle", "retired"}
    /\ IF r = 1 THEN TRUE ELSE req[r - 1].pc # "idle"

Next ==
    \/ \E name \in PluginNames : Register(name)
    \/ \E name \in PluginNames : Unregister(name)
    \/ \E r \in Reqs :
          /\ Admit(r) /\ req[r].pc = "idle"
          /\ \E body \in Bodies, canHandle \in [PluginNames -> CanHandleOutcomes],
                executeThrows \in SUBSET PluginNames :
                HandleMessage(r, body, canHandle, executeThrows)
    \/ \E r \in Reqs, p \in PluginNames :
          \E outcome \in ExecuteOutcomes(p) : PluginSettles(r, p, outcome)
    \/ \E r \in Reqs, p \in PluginNames : TimerFires(r, p)
    \/ \E r \in Reqs : PluginsReturn(r)
    \/ \E r \in Reqs, ok \in BOOLEAN : RagInitializeIndex(r, ok)
    \/ \E r \in Reqs, ok \in BOOLEAN : RagGetIndexStats(r, ok)
    \/ \E r \in Reqs, ok \in BOOLEAN : RagLoadDocuments(r, ok)
    \/ \E r \in Reqs, ok \in BOOLEAN : RagEmbedding(r, ok)
    \/ \E r \in Reqs, ok \in BOOLEAN, matches \in MatchSeqs : RagQuery(r, ok, matches)
    \/ \E r \in Reqs, ok \in BOOLEAN, content \in CompletionTexts : RagCompletion(r, ok, content)
    \/ \E r \in Reqs, ok \in BOOLEAN, content \in CompletionTexts : Completion(r, ok, content)
    \/ \E r \in Reqs :
          /\ Admit(r) /\ req[r].pc = "idle"
          /\ \E plugin_name \in PluginNameValues, test_query \in TestQueryValues,
                executeThrows \in BOOLEAN :
                TestPlugin(r, plugin_name, test_query, executeThrows)
    \/ \E r \in Reqs : TestPluginReturn(r)
    \/ \E r \in Reqs : Retire(r)
    \/ Tick

Spec == Init /\ [][Next]_vars

(***************************************************************************)
(* The memory store on its own: any sequence of calls on MemoryService,    *)
(* and the session handler of the controller.  The k-th message appended   *)
(* to a session is "Message k", from the user when k is odd.               *)
(***************************************************************************)
routerVars == <<registry, registryOps, req, inv, calls, response, rag, track, cleanupTimer, storer>>

WindowSizes == 0..MaxWindow \cup {maxMessagesPerSession, maxMessagesPerSession + 1}

nthMessage(k) ==
    Message(IF k % 2 = 1 THEN "user" ELSE "assistant", <<"Message ", ToString(k)>>, 0)

Return(op, id, n, value) == [op |-> op, id |-> id, n |-> n, value |-> value, threw |-> FALSE]

AddMessage(id) ==
    /\ appended[id] < MaxAppends
    /\ sessions' = addMessage(sessions, id, nthMessage(appended[id] + 1), now)
    /\ appended' = [appended EXCEPT ![id] = @ + 1]
    /\ ret' = Return("addMessage", id, 0, <<>>)
    /\ UNCHANGED <<now, routerVars, prompter, chunker>>

GetRecentMessages(id, n) ==
    /\ ret' = Return("getRecentMessages", id, n, getRecentMessages(sessions, id, n))
    /\ UNCHANGED <<now, routerVars, prompter, chunker, sessions, appended>>

\* a summary that fetches the session with getSession
GenerateMemorySummaryCreating(id) ==
    /\ sessions' = getSession(sessions, id, now)
    /\ ret' = Return("generateMemorySummary", id, 0, generateMemorySummary(sessions, id, now))
    /\ UNCHANGED <<now, routerVars, prompter, chunker, appended>>

GenerateMemorySummary(id) ==
    /\ ret' = Return("generateMemorySummary", id, 0, generateMemorySummary(sessions, id, now))
    /\ UNCHANGED <<now, routerVars, prompter, chunker, sessions, appended>>

ClearSession(id) ==
    /\ sessions' = clearSession(sessions, id).table
    /\ appended' = [appended EXCEPT ![id] = 0]
    /\ ret' = Return("clearSession", id, 0, clearSession(sessions, id).deleted)
    /\ UNCHANGED <<now, routerVars, prompter, chunker>>

GetSession(id) ==
    /\ sessions' = getSession(sessions, id, now)
    /\ ret' = Return("getSession", id, 0, sessions'[id])
    /\ UNCHANGED <<now, routerVars, prompter, chunker, appended>>

\* AgentController.getSessionInfo: the response it sends
GetSessionInfo(sessionId) ==
    LET table == getSession(sessions, sessionId, now)
        sessionData == table[sessionId]
    IN /\ sessions' = table
       /\ ret' = Return("getSessionInfo", sessionId, 0,
                        IF ~sessionData.exists
                        THEN [status |-> 404, code |-> "SESSION_NOT_FOUND",
                              messageCount |-> 0]
                        ELSE [status |-> 200, code |-> "",
                              messageCount |-> Len(sessionData.messages)])
       /\ UNCHANGED <<now, routerVars, prompter, chunker, appended>>

MemoryNext ==
    \/ \E id \in SessionIds : AddMessage(id)
    \/ \E id \in SessionIds, n \in WindowSizes : GetRecentMessages(id, n)
    \/ \E id \in SessionIds : GenerateMemorySummary(id)
    \/ \E id \in SessionIds : ClearSession(id)
    \/ \E id \in SessionIds : GetSession(id)
    \/ \E id \in SessionIds : GetSessionInfo(id)

SpecMemory == Init /\ [][MemoryNext]_vars

(***************************************************************************)
(* The sweep of the memory store.  The constructor sets an interval timer; *)
(* its callback, cleanupExpiredSessions, runs when it is due or later,     *)
(* between other calls on the store.  The clock moves between the instants *)
(* around one session age after construction.                              *)
(***************************************************************************)
MaxSweepAppends == 1
MaxSweeps == 2

SweepInstants ==
    { base + drift : base \in {0, maxSessionAge - cleanupInterval, maxSessionAge,
                               maxSessionAge + cleanupInterval},
                     drift \in {0, 1} }

\* a sweep that also removes the sessions whose age is the maximum
cleanupExpiredSessionsAtAge(table, t) ==
    [id \in DOMAIN table |->
        IF table[id].exists /\ t - table[id].last_activity >= maxSessionAge
        THEN NoSession ELSE table[id]]

\* cleanupExpiredSessions, lines 194-205: the table after the sweep at time t
cleanupExpiredSessions(table, t) ==
    [id \in DOMAIN table |->
        IF table[id].exists /\ t - table[id].last_activity > maxSessionAge
        THEN NoSession ELSE table[id]]

\* time passes
Elapse(t) ==
    /\ t > now
    /\ now' = t
    /\ UNCHANGED <<registry, registryOps, req, inv, calls, response, rag, track>>
    /\ UNCHANGED <<sessions, appended, ret, chunker, prompter, cleanupTimer, storer>>

\* the interval timer's callback (lines 15-17)
CleanupExpiredSessions ==
    /\ cleanupTimer.sweeps < MaxSweeps
    /\ cleanupTimer.due <= now
    /\ sessions' = cleanupExpiredSessions(sessions, now)
    /\ appended' = [id \in SessionIds |-> IF sessions'[id].exists THEN appended[id] ELSE 0]
    /\ cleanupTimer' = [due |-> now + cleanupInterval, sweeps |-> cleanupTimer.sweeps + 1]
    /\ UNCHANGED <<now, registry, registryOps, req, inv, calls, response, rag, track>>
    /\ UNCHANGED <<ret, chunker, prompter, storer>>

SweepNext ==
    \/ \E id \in SessionIds : appended[id] < MaxSweepAppends /\ AddMessage(id)
    \/ \E id \in SessionIds : GetSession(id)
    \/ \E t \in SweepInstants : Elapse(t)
    \/ CleanupExpiredSessions

SpecSweep == Init /\ [][SweepNext]_vars

(***************************************************************************)
(* The read operations of the memory store, between appends and clears,    *)
(* while time passes.                                                      *)
(***************************************************************************)
MaxReadAppends == 2
ReadInstants == {60 * 1000, cleanupInterval}

\* getSessionStats: what it returns; found is FALSE for null
getSessionStats(table, sessionId, t) ==
    IF ~table[sessionId].exists
    THEN [found |-> FALSE, messageCount |-> 0, userMessages |-> 0, assistantMessages |-> 0,
          sessionAge |-> NoText, lastActivity |-> NoText]
    ELSE LET session == table[sessionId]
         IN [found |-> TRUE,
             messageCount |-> Len(session.messages),
             userMessages |-> Len(SelectSeq(session.messages, LAMBDA msg : msg.role = "user")),
             assistantMessages |->
                 Len(SelectSeq(session.messages, LAMBDA msg : msg.role = "assistant")),
             sessionAge |-> formatTimeAgo(session.created_at, t),
             lastActivity |-> formatTimeAgo(session.last_activity, t)]

\* getAllSessions: the entries it returns (the table keeps no insertion
\* order: the array is given as the set of its entries)
getAllSessions(table) ==
    { [sessionId |-> id, messageCount |-> Len(table[id].messages),
       lastActivity |-> table[id].last_activity] :
      id \in { x \in DOMAIN table : table[x].exists } }

GetConversationContext(id, n) ==
    /\ ret' = Return("getConversationContext", id, n, getConversationContext(sessions, id, n))
    /\ UNCHANGED <<now, routerVars, prompter, chunker, sessions, appended>>

\* a statistics call that fetches the session with getSession
GetSessionStatsTouching(id) ==
    /\ sessions' = getSession(sessions, id, now)
    /\ ret' = Return("getSessionStats", id, 0, getSessionStats(sessions', id, now))
    /\ UNCHANGED <<now, routerVars, prompter, chunker, appended>>

GetSessionStats(id) ==
    /\ ret' = Return("getSessionStats", id, 0, getSessionStats(sessions, id, now))
    /\ UNCHANGED <<now, routerVars, prompter, chunker, sessions, appended>>

GetAllSessions ==
    /\ ret' = Return("getAllSessions", "", 0, getAllSessions(sessions))
    /\ UNCHANGED <<now, routerVars, prompter, chunker, sessions, appended>>

ReadsNext ==
    \/ \E id \in SessionIds : appended[id] < MaxReadAppends /\ AddMessage(id)
    \/ \E id \in SessionIds : ClearSession(id)
    \/ \E t \in ReadInstants : Elapse(t)
    \/ \E id \in SessionIds, n \in 0..MaxWindow : GetRecentMessages(id, n)
    \/ \E id \in SessionIds, n \in 0..MaxWindow : GetConversationContext(id, n)
    \/ \E id \in SessionIds : GenerateMemorySummary(id)
    \/ \E id \in SessionIds : GetSessionStats(id)
    \/ GetAllSessions

SpecReads == Init /\ [][ReadsNext]_vars

(***************************************************************************)
(* PineconeService.chunkText.  The text is a sequence of characters;       *)
(* positions are JavaScript's, counted from 0.  One action is one          *)
(* iteration of the while loop; windows records <<currentPosition,         *)
(* endPosition>> of every iteration.                                       *)
(***************************************************************************)
\* line 129: chunks of at most this length are dropped
minChunkLength == 50
\* line 97: the default parameters
defaultMaxChunkSize == 1000
defaultOverlap == 200

Max(a, b) == IF a >= b THEN a ELSE b
Min(a, b) == IF a <= b THEN a ELSE b

\* String.prototype.substring(a, b): an argument below 0 is 0, one above the
\* length is the length, and the smaller of the two is the start
substring(cs, a, b) ==
    LET from == Max(0, Min(a, Len(cs)))
        to == Max(0, Min(b, Len(cs)))
    IN SubSeq(cs, Min(from, to) + 1, Max(from, to))

\* String.prototype.lastIndexOf: the position of the last occurrence, or -1
lastIndexOf(cs, lit) ==
    IF \E i \in 1..Len(cs) : LitAt(cs, i, lit)
    THEN (CHOOSE i \in 1..Len(cs) :
             LitAt(cs, i, lit) /\ \A j \in (i+1)..Len(cs) : ~LitAt(cs, j, lit)) - 1
    ELSE -1

\* lines 109-113: the position of the last sentence end in the chunk
lastSentenceEnd(chunk) ==
    Max(lastIndexOf(chunk, <<".", " ">>),
        Max(lastIndexOf(chunk, <<"!", " ">>), lastIndexOf(chunk, <<"?", " ">>)))

\* lines 107-115: the chunk of the window that ends at endPosition, cut back
\* to the last sentence end when that lies in its back half
cutAtSentence(text, currentPosition, endPosition) ==
    LET chunk == substring(text, currentPosition, endPosition)
        sentenceEnd == lastSentenceEnd(chunk)
    IN IF endPosition < Len(text) /\ 2 * sentenceEnd > Len(chunk)
       THEN substring(chunk, 0, sentenceEnd + 1)
       ELSE chunk

\* line 117: the chunk pushed
chunkOf(text, currentPosition, endPosition) ==
    trim(cutAtSentence(text, currentPosition, endPosition))

\* a filter that keeps every chunk
chunkFilterNone(chunks) == chunks

\* line 129: chunks.filter(chunk => chunk.length > 50)
chunkFilter(chunks) == SelectSeq(chunks, LAMBDA chunk : Len(chunk) > minChunkLength)

\* the texts chunked: length characters, the first pad of them spaces, a
\* sentence end (mark, space) at each position of ends; the long texts are
\* chunked with the default chunk size
TextLengths == {0, 30, 51, 60, 100, 130, 170, 1010, 1300, 2100}
TextPads == {0, 3}
SentenceMarks == {".", "!", "?"}
SentenceEnds == { {}, {20}, {40}, {58}, {40, 90}, {52, 117}, {600}, {900, 1500} }
ChunkSizes == {55, 60, 100, defaultMaxChunkSize}
Overlaps == {0, 5, 20, 40, defaultOverlap}

textOf(length, pad, mark, ends) ==
    [i \in 1..length |->
        IF i <= pad THEN " "
        ELSE IF (i - 1) \in ends THEN mark
        ELSE IF (i - 2) \in ends THEN " "
        ELSE "a"]

\* chunkText is called: lines 97-99
chunkTextCalled(text, maxChunkSize, overlap) ==
    [NoChunker EXCEPT !.pc = "while", !.text = text, !.maxChunkSize = maxChunkSize,
                      !.overlap = overlap]

ChunkInit ==
    /\ Quiescent
    /\ prompter = NoPrompter
    /\ \E length \in TextLengths, pad \in TextPads, mark \in SentenceMarks,
          ends \in SentenceEnds, maxChunkSize \in ChunkSizes, overlap \in Overlaps :
          /\ overlap < maxChunkSize
          /\ length > defaultOverlap => maxChunkSize = defaultMaxChunkSize
          /\ (\E e \in ends : e > defaultOverlap) => length > defaultOverlap
          /\ chunker = chunkTextCalled(textOf(length, pad, mark, ends),
                                       maxChunkSize, overlap)

\* lines 101-127: one iteration of the loop
ChunkWhile ==
    /\ chunker.pc = "while"
    /\ chunker.currentPosition < Len(chunker.text)
    /\ LET c == chunker
           endPosition == Min(c.currentPosition + c.maxChunkSize, Len(c.text))
           chunk == chunkOf(c.text, c.currentPosition, endPosition)
           pushed == [c EXCEPT !.chunks = Append(@, chunk),
                               !.windows = Append(@, <<c.currentPosition, endPosition>>)]
       IN chunker' =
            IF endPosition >= Len(c.text)
            THEN [pushed EXCEPT !.pc = "return"]
            ELSE IF endPosition - c.overlap <= Len(chunk) - c.overlap
            THEN [pushed EXCEPT !.currentPosition = endPosition]
            ELSE [pushed EXCEPT !.currentPosition = endPosition - c.overlap]
    /\ UNCHANGED <<now, routerVars, prompter, sessions, appended, ret>>

\* line 101, the loop's test fails, or line 122, break: line 129
ChunkReturn ==
    /\ \/ chunker.pc = "return"
       \/ chunker.pc = "while" /\ chunker.currentPosition >= Len(chunker.text)
    /\ chunker' = [chunker EXCEPT !.pc = "returned",
                                  !.returned = chunkFilter(chunker.chunks)]
    /\ UNCHANGED <<now, routerVars, prompter, sessions, appended, ret>>

ChunkNext == ChunkWhile \/ ChunkReturn

SpecChunk == ChunkInit /\ [][ChunkNext]_vars

(***************************************************************************)
(* chunkText with any parameters: maxChunkSize from 1 and overlap from 0,  *)
(* the overlaps of the chunk size and more included.  The iterations of a  *)
(* call are counted up to MaxChunkIterations.                              *)
(***************************************************************************)
MaxChunkIterations == 12

AnyTextLengths == {0, 30, 60, 130, 170}
AnySentenceEnds == { {}, {40}, {52, 117} }
AnyChunkSizes == {1, 55, 60}
AnyOverlaps == {0, 20, 55, 60, 100}

ChunkAnyInit ==
    /\ Quiescent
    /\ prompter = NoPrompter
    /\ \E length \in AnyTextLengths, ends \in AnySentenceEnds,
          maxChunkSize \in AnyChunkSizes, overlap \in AnyOverlaps :
          chunker = chunkTextCalled(textOf(length, 0, ".", ends), maxChunkSize, overlap)

ChunkAnyNext ==
    \/ Len(chunker.windows) < MaxChunkIterations /\ ChunkWhile
    \/ ChunkReturn

SpecChunkAny == ChunkAnyInit /\ [][ChunkAnyNext]_vars

(***************************************************************************)
(* PineconeService.storeDocuments.  A document is given by the number of   *)
(* chunks chunkText returns for it; a vector is <<d, i>>, chunk i (from 0) *)
(* of the d-th document.  One action per await; ok: whether the            *)
(* collaborator's call succeeds.                                           *)
(***************************************************************************)
MaxDocuments == 2
DocumentChunks == {0, 1, 99, 100, 101}
DocumentLists == UNION { [1..n -> DocumentChunks] : n \in 0..MaxDocuments }

RECURSIVE storeLoop(_, _, _)
\* lines 141-146 and 178-184: the loops run on from chunk i of document doc to
\* the next await, or to the end
storeLoop(st, doc, i) ==
    IF doc > Len(st.documents)
    THEN IF Len(st.vectors) > 0 THEN [st EXCEPT !.pc = "final_upsert"]
         ELSE [st EXCEPT !.pc = "returned"]
    ELSE IF i < st.documents[doc]
    THEN [st EXCEPT !.pc = "embedding", !.doc = doc, !.i = i]
    ELSE storeLoop(st, doc + 1, 0)

\* storeDocuments is called: lines 137-149
StoreDocuments(documents) ==
    /\ storer.pc = "idle"
    /\ storer' = storeLoop([NoStorer EXCEPT !.documents = documents], 1, 0)
    /\ UNCHANGED <<now, registry, registryOps, req, inv, calls, response, rag, track>>
    /\ UNCHANGED <<sessions, appended, ret, chunker, prompter, cleanupTimer>>

\* generateEmbedding returns: lines 149-168
StoreEmbedding(ok) ==
    /\ storer.pc = "embedding"
    /\ storer' =
         IF ~ok THEN [storer EXCEPT !.pc = "threw"]
         ELSE LET pushed == [storer EXCEPT !.vectors = Append(@, <<storer.doc, storer.i>>),
                                           !.embedded = Append(@, <<storer.doc, storer.i>>)]
              IN IF Len(pushed.vectors) >= upsertBatchSize
                 THEN [pushed EXCEPT !.pc = "upsert"]
                 ELSE storeLoop(pushed, storer.doc, storer.i + 1)
    /\ UNCHANGED <<now, registry, registryOps, req, inv, calls, response, rag, track>>
    /\ UNCHANGED <<sessions, appended, ret, chunker, prompter, cleanupTimer>>

\* a store that does not empty the array after a batch
StoreUpsertKeeping(ok) ==
    /\ storer.pc \in {"upsert", "final_upsert"}
    /\ storer' =
         IF ~ok THEN [storer EXCEPT !.pc = "threw"]
         ELSE [storer EXCEPT !.upserted = Append(@, storer.vectors),
                             !.pc = IF storer.pc = "upsert" THEN "delay" ELSE "returned"]
    /\ UNCHANGED <<now, registry, registryOps, req, inv, calls, response, rag, track>>
    /\ UNCHANGED <<sessions, appended, ret, chunker, prompter, cleanupTimer>>

\* index.upsert returns: lines 168-170 (a batch) and 180-184 (the rest)
StoreUpsert(ok) ==
    /\ storer.pc \in {"upsert", "final_upsert"}
    /\ storer' =
         IF ~ok THEN [storer EXCEPT !.pc = "threw"]
         ELSE [storer EXCEPT !.upserted = Append(@, storer.vectors),
                             !.vectors = IF storer.pc = "upsert" THEN <<>> ELSE @,
                             !.pc = IF storer.pc = "upsert" THEN "delay" ELSE "returned"]
    /\ UNCHANGED <<now, registry, registryOps, req, inv, calls, response, rag, track>>
    /\ UNCHANGED <<sessions, appended, ret, chunker, prompter, cleanupTimer>>

\* the delay after a batch is over: line 173
StoreDelay ==
    /\ storer.pc = "delay"
    /\ storer' = storeLoop(storer, storer.doc, storer.i + 1)
    /\ UNCHANGED <<now, registry, registryOps, req, inv, calls, response, rag, track>>
    /\ UNCHANGED <<sessions, appended, ret, chunker, prompter, cleanupTimer>>

StoreNext ==
    \/ \E documents \in DocumentLists : StoreDocuments(documents)
    \/ \E ok \in BOOLEAN : StoreEmbedding(ok)
    \/ \E ok \in BOOLEAN : StoreUpsert(ok)
    \/ StoreDelay

SpecStore == Init /\ [][StoreNext]_vars

(***************************************************************************)
(* PromptService.generateSystemPrompt.  A text is a sequence of            *)
(* characters.  The fixed text of a template is kept by its length: every  *)
(* character of it is "~", which occurs in no text given by the caller.    *)
(***************************************************************************)
template(n) == [i \in 1..n |-> "~"]

\* createBaseSystemPrompt: the number of characters of the text returned
baseSystemPromptLength == 1329
\* getDefaultConfig: maxContextTokens
defaultMaxContextTokens == 3500

\* lines 779-782: "## Conversation Memory\n", the summary, "\n\nUse this ... relevant."
createMemorySection(memorySummary) == template(23) \o memorySummary \o template(99)

\* lines 789-792, without sources: "## Knowledge Base Context\n...query:\n\n", the context
createRAGSection(ragContext) == template(134) \o ragContext

RECURSIVE joinChars(_, _)
\* Array.prototype.join on texts of characters
joinChars(texts, separator) ==
    IF Len(texts) = 0 THEN <<>>
    ELSE IF Len(texts) = 1 THEN texts[1]
    ELSE joinChars(SubSeq(texts, 1, Len(texts) - 1), separator)
         \o separator \o texts[Len(texts)]

\* lines 831-847: the last 6 messages as "**role**: content", or the fixed
\* text of a new conversation
createConversationSection(conversationHistory) ==
    IF Len(conversationHistory) = 0 THEN template(64)
    ELSE LET recent == sliceLast(conversationHistory, 6)
         IN template(23)
            \o joinChars([i \in 1..Len(recent) |->
                             template(2) \o recent[i].role \o template(4)
                             \o recent[i].content],
                         template(2))

\* lines 849-856: "## Current Request\n**Session**: ", the id, "\n**Time**: ",
\* the time, "\n**Query**: ", the query, "\n\nRespond to ... above."
createQuerySection(userQuery, sessionId, timestamp) ==
    template(32) \o sessionId \o template(11) \o timestamp \o template(12)
    \o userQuery \o template(58)

\* lines 874-877: Math.ceil(text.length / 4)
estimateTokens(text) == (Len(text) + 3) \div 4

\* "\n\n... [Content truncated for length] ...\n\n"
truncationMarker ==
    <<"\n", "\n", ".", ".", ".", " ", "[", "C", "o", "n", "t", "e", "n", "t", " ",
      "t", "r", "u", "n", "c", "a", "t", "e", "d", " ", "f", "o", "r", " ",
      "l", "e", "n", "g", "t", "h", "]", " ", ".", ".", ".", "\n", "\n">>

\* lines 882-904; Math.floor(maxChars * 0.6) and Math.floor(maxChars * 0.3)
\* are the integer quotients by 10 of maxChars * 6 and maxChars * 3
truncateIfNeeded(prompt, maxTokens) ==
    IF estimateTokens(prompt) <= maxTokens THEN prompt
    ELSE LET maxChars == maxTokens * 4
             keepStart == (maxChars * 6) \div 10
             keepEnd == (maxChars * 3) \div 10
         IN IF Len(prompt) <= keepStart + keepEnd THEN prompt
            ELSE substring(prompt, 0, keepStart) \o truncationMarker
                 \o substring(prompt, Len(prompt) - keepEnd, Len(prompt))

\* the session id and the time stamp (toISOString) of the contexts
promptSessionId == <<"s", "1">>
promptTimestamp == [i \in 1..24 |-> "0"]

\* lines 635-667, with the default includeMemory, includeRAG and
\* includePlugins and no plugin results: the sections joined, before truncation
fullPrompt(c) ==
    joinChars(<<template(baseSystemPromptLength)>>
              \o (IF c.memorySummary # <<>>
                  THEN <<createMemorySection(c.memorySummary)>> ELSE <<>>)
              \o (IF c.ragContext # <<>>
                  THEN <<createRAGSection(c.ragContext)>> ELSE <<>>)
              \o <<createConversationSection(c.conversationHistory),
                   createQuerySection(c.userQuery, promptSessionId, promptTimestamp)>>,
              template(7))

PromptService_generateSystemPrompt(c) == truncateIfNeeded(fullPrompt(c), c.maxContextTokens)

\* the contexts given: texts of one repeated character
textOfLength(ch, n) == [i \in 1..n |-> ch]
QueryLengths == {1, 20, 100, 500}
MemorySummaryLengths == {0, 40}
RagContextLengths == {0, 300, 2000, 13000}
HistoryLengths == {0, 2, 8}
TokenBudgets == {1, 10, 101, 102, 200, 450, 1000, defaultMaxContextTokens}

historyOf(n) ==
    [i \in 1..n |-> [role |-> IF i % 2 = 1 THEN <<"u", "s", "e", "r">>
                              ELSE <<"a", "s", "s", "i", "s", "t", "a", "n", "t">>,
                     content |-> textOfLength("c", 10 + i)]]

PromptInit ==
    /\ Quiescent
    /\ chunker = NoChunker
    /\ \E q \in QueryLengths, m \in MemorySummaryLengths, g \in RagContextLengths,
          h \in HistoryLengths, budget \in TokenBudgets :
          prompter = [NoPrompter EXCEPT !.pc = "called",
                                        !.userQuery = textOfLength("q", q),
                                        !.memorySummary = textOfLength("m", m),
                                        !.ragContext = textOfLength("r", g),
                                        !.conversationHistory = historyOf(h),
                                        !.maxContextTokens = budget]

GenerateSystemPrompt ==
    /\ prompter.pc = "called"
    /\ prompter' = [prompter EXCEPT !.pc = "returned",
                                    !.returned = PromptService_generateSystemPrompt(prompter)]
    /\ UNCHANGED <<now, routerVars, sessions, appended, ret, chunker>>

PromptNext == GenerateSystemPrompt

SpecPrompt == PromptInit /\ [][PromptNext]_vars

(***************************************************************************)
(* Concurrent requests on the sessions.  Requests begin while others are   *)
(* in progress; no plugin applies to them; a session may be cleared at any *)
(* time (DELETE /agent/session/:sessionId).                                *)
(***************************************************************************)
noPluginApplies == [p \in PluginNames |-> "false"]

SessionMessages == {"how to implement a REST API", "Calculate 15 + 27"}
ReplyTexts == CompletionTexts \cup { <<"another completion text">> }

\* AgentController.clearSession, for a session id that is given
ClearSessionHandler(sessionId) ==
    /\ LET cleared == clearSession(sessions, sessionId)
       IN /\ sessions' = cleared.table
          /\ ret' = Return("DELETE session", sessionId,
                           IF cleared.deleted THEN 200 ELSE 404, cleared.deleted)
          /\ track' = IF ~cleared.deleted THEN track
                      ELSE [track EXCEPT
                              !.cleared[sessionId] =
                                  [found |-> TRUE, inFlight |-> inProgress(sessionId),
                                   idle |-> { q \in Reqs : req[q].pc = "idle" }],
                              !.overlapped =
                                  [q \in Reqs |-> IF q \in inProgress(sessionId)
                                                  THEN TRUE ELSE @[q]]]
    /\ UNCHANGED <<now, registry, registryOps, req, inv, calls, response, rag>>
    /\ UNCHANGED <<appended, chunker, prompter, cleanupTimer, storer>>

SessionsNext ==
    \/ \E r \in Reqs :
          /\ req[r].pc = "idle"
          /\ IF r = 1 THEN TRUE ELSE req[r - 1].pc # "idle"
          /\ \E m \in SessionMessages, id \in SessionIds :
                /\ r = 1 => id = "s1"
                /\ HandleMessage(r, [message |-> Str(m), session_id |-> Str(id)],
                                 noPluginApplies, {})
    \/ \E r \in Reqs : PluginsReturn(r)
    \/ \E r \in Reqs, ok \in BOOLEAN : RagInitializeIndex(r, ok)
    \/ \E r \in Reqs, ok \in BOOLEAN : RagGetIndexStats(r, ok)
    \/ \E r \in Reqs, ok \in BOOLEAN : RagLoadDocuments(r, ok)
    \/ \E r \in Reqs, ok \in BOOLEAN : RagEmbedding(r, ok)
    \/ \E r \in Reqs, ok \in BOOLEAN : RagQuery(r, ok, <<>>)
    \/ \E r \in Reqs, ok \in BOOLEAN, content \in ReplyTexts : RagCompletion(r, ok, content)
    \/ \E r \in Reqs, ok \in BOOLEAN, content \in ReplyTexts : Completion(r, ok, content)
    \/ \E id \in SessionIds : ClearSessionHandler(id)

SpecSessions == Init /\ [][SessionsNext]_vars

(***************************************************************************)
(* Properties of the router (AgentController.handleMessage)                *)
(***************************************************************************)
Strategies == {"PLUGIN", "RAG", "CONVERSATIONAL"}

\* what executeApplicablePlugins hands to the handler of request r
dispatched(r) == executionResults(req[r].applicablePlugins, inv[r])

anySuccess(r) == \E i \in 1..Len(dispatched(r)) : dispatched(r)[i].result.success

\* in this step the handler of request r gets the plugins' results and routes
Routes(r) == req[r].pc = "plugins" /\ req'[r].pc # "plugins"

C2_RagWithoutPluginSuccess ==
    [][\A r \in Reqs : Routes(r) /\ ~anySuccess(r) /\ req[r].shouldUseRAG
                          => req'[r].strategy = "RAG"]_vars

\* a request routed to RAG after one of its plugins timed out
C2_Witness ==
    \E r \in Reqs : /\ req[r].strategy = "RAG"
                    /\ \E p \in PluginNames : inv[r][p].timer = "fired"

\* C3: whenever no result is a success and the message fails the RAG test, the
\* request is routed to CONVERSATIONAL: the completion is asked for with the
\* session's last messages, the request's own message being the last one, and
\* with the system prompt built from the session's summary; a conversational
\* request never calls the embedding or the vector index.
C3_ConversationalOtherwise ==
    [][\A r \in Reqs :
          /\ Routes(r) /\ ~anySuccess(r) /\ ~req[r].shouldUseRAG
                => /\ req'[r].strategy = "CONVERSATIONAL"
                   /\ Len(calls'[r]) = 1
                   /\ LET call == calls'[r][1]
                          stored == sessions'[req[r].session_id].messages
                      IN /\ call.service = "completion"
                         /\ call.messages = sliceLast(stored, contextWindow)
                         /\ call.messages[Len(call.messages)].role = "user"
                         /\ call.messages[Len(call.messages)].content = <<req[r].message>>
                         /\ call.system_prompt = generateSystemPrompt(
                               generateMemorySummary(sessions', req[r].session_id, now))
          /\ req'[r].strategy = "CONVERSATIONAL"
                => \A i \in 1..Len(calls'[r]) : calls'[r][i].service = "completion"]_vars

\* a conversational request answered after a plugin failed
C3_Witness ==
    \E r \in Reqs : /\ req[r].strategy = "CONVERSATIONAL" /\ response[r].status = 200
                    /\ Len(calls[r]) = 1
                    /\ \E p \in PluginNames : inv[r][p].exec = "settled"

\* the handler's positions inside each strategy
BranchPcs(strategy) ==
    CASE strategy = "RAG" -> {"rag_initializeIndex", "rag_getIndexStats", "rag_loadDocuments",
                              "rag_embedding", "rag_query", "rag_completion"}
      [] strategy = "CONVERSATIONAL" -> {"completion"}
      [] OTHER -> {}

Applicable(r) == SeqToSet(req[r].applicablePlugins)

\* the plugin's execute had not settled when its timer fired
timedOut(r, p) == inv[r][p].timer = "fired" /\ inv[r][p].exec # "threw"

\* the plugin's execute resolved with a success before its timer fired
succeeded(r, p) ==
    /\ inv[r][p].exec = "settled" /\ inv[r][p].timer = "cleared"
    /\ inv[r][p].outcome.resolved /\ inv[r][p].outcome.result.success

oneSlowRestSucceed(r, slow) ==
    /\ req[r].pc = "plugins"
    /\ slow \in Applicable(r) /\ timedOut(r, slow)
    /\ \A p \in Applicable(r) \ {slow} : succeeded(r, p)

\* C6: when one of the N applicable plugins had not finished at its timeout
\* and the other N-1 resolved with a success, executeApplicablePlugins has N
\* results, the i-th under the i-th plugin's name: the slow plugin's is a
\* failure whose error is the timed-out text, the others are the plugins' own
\* successes.
C6_OneTimeoutAmongSuccesses ==
    \A r \in Reqs : \A slow \in PluginNames :
        oneSlowRestSucceed(r, slow)
            => LET plugins == req[r].applicablePlugins
                   results == dispatched(r)
               IN /\ AllSettled(r)
                  /\ Len(results) = Len(plugins)
                  /\ \A i \in 1..Len(plugins) :
                        /\ results[i].pluginName = plugins[i]
                        /\ IF plugins[i] = slow
                           THEN /\ ~results[i].result.success
                                /\ results[i].result.error =
                                      <<"Plugin ", slow, " execution timed out after ",
                                        ToString(defaultTimeout), "ms">>
                           ELSE /\ results[i].result.success
                                /\ results[i].result = inv[r][plugins[i]].outcome.result

\* three applicable plugins: one timed out and finished later, two succeeded
C6_Witness ==
    \E r \in Reqs : \E slow \in PluginNames :
        /\ oneSlowRestSucceed(r, slow)
        /\ Len(req[r].applicablePlugins) = 3
        /\ inv[r][slow].exec = "settled"

\* C7: executeApplicablePlugins returns no later than one timeout after it
\* was called, whatever the number of plugins and whether or not their
\* executes complete: while it waits, every applicable plugin has been
\* started, and its timer was set when the call was made.
C7_BoundedByOneTimeout ==
    [][\A r \in Reqs :
          /\ Routes(r) => now - req[r].startedAt <= defaultTimeout
          /\ req'[r].pc = "plugins"
                => /\ now' - req'[r].startedAt <= defaultTimeout
                   /\ \A p \in SeqToSet(req'[r].applicablePlugins) :
                         /\ inv'[r][p].timer # "none"
                         /\ inv'[r][p].deadline = req'[r].startedAt + defaultTimeout]_vars

\* three plugins, one of which never completes: the results are in one timeout
\* after the call
C7_Witness ==
    \E r \in Reqs :
        /\ req[r].pc = "plugins" /\ AllSettled(r)
        /\ Len(req[r].applicablePlugins) = 3
        /\ now - req[r].startedAt = defaultTimeout
        /\ \E p \in Applicable(r) : inv[r][p].exec = "pending"

\* the fault that settled the invocation's promise: the plugin's execute
\* threw or rejected and the timer had not fired
faulted(r, p) ==
    /\ inv[r][p].exec \in {"settled", "threw"}
    /\ ~inv[r][p].outcome.resolved
    /\ inv[r][p].timer # "fired"

\* C8: whatever a plugin's execute does, executePlugin's promise is never
\* rejected; when the execute threw or rejected, the result is a failure whose
\* error is the fault's description; and executeApplicablePlugins has one
\* result for every applicable plugin, under the plugin's name.
C8_FaultsBecomeResults ==
    \A r \in Reqs :
        req[r].pc \in {"plugins", "test_wait"}
            => /\ \A p \in Applicable(r) :
                     /\ inv[r][p].promise.state # "rejected"
                     /\ faulted(r, p)
                           => /\ inv[r][p].promise.state = "fulfilled"
                              /\ ~inv[r][p].promise.value.result.success
                              /\ inv[r][p].promise.value.result.error =
                                    inv[r][p].outcome.fault.message
               /\ AllSettled(r)
                     => /\ Len(dispatched(r)) = Len(req[r].applicablePlugins)
                        /\ \A i \in 1..Len(dispatched(r)) :
                              dispatched(r)[i].pluginName = req[r].applicablePlugins[i]

\* the name given to testPlugin is not registered
notRegistered(r) ==
    /\ req[r].handler = "testPlugin"
    /\ req[r].pc \in {"test_wait", "done"}
    /\ req[r].applicablePlugins # <<>>
    /\ ~has(registry, req[r].applicablePlugins[1])

notFoundResult(pluginName) ==
    [pluginName |-> pluginName,
     result |-> [success |-> FALSE, formattedResponse |-> NoText, message |-> NoText,
                 error |-> <<"Plugin '", pluginName, "' not found">>],
     executionTime |-> 0]

\* C9: executePlugin for a name that is not registered is fulfilled, not
\* rejected, with a failure whose error is the not-found text and whose
\* execution time is zero; no plugin is executed and no timer is set.
C9_UnknownPluginIsReported ==
    \A r \in Reqs :
        notRegistered(r)
            => LET name == req[r].applicablePlugins[1]
               IN /\ \A p \in InvNames : inv[r][p].exec = "none" /\ inv[r][p].timer = "none"
                  /\ req[r].pc = "test_wait"
                        => inv[r][name].promise = Fulfilled(notFoundResult(name))
                  /\ req[r].pc = "done"
                        => /\ response[r].status = 200
                           /\ response[r].result = notFoundResult(name)

\* testPlugin has answered for a plugin that was unregistered
C9_Witness ==
    \E r \in Reqs : /\ notRegistered(r) /\ req[r].pc = "done"
                    /\ req[r].applicablePlugins[1] \in PluginNames

\* some plugin's canHandle throws for the request's context
canHandleThrows(r) ==
    /\ req[r].handler = "handleMessage"
    /\ \E p \in PluginNames : req[r].canHandle[p] = "throws"

\* C10: when a plugin's canHandle throws, findApplicablePlugins still
\* returns: the handler goes on to execute the plugins found, which are the
\* registered plugins whose canHandle returned true, in registration order,
\* the throwing plugin not among them.
C10_CanHandleFaultsAreContained ==
    \A r \in Reqs :
        canHandleThrows(r)
            => /\ req[r].pc = "plugins"
               /\ response[r].status = 0
               /\ \A p \in PluginNames :
                     p \in Applicable(r) <=> has(registry, p) /\ req[r].canHandle[p] = "true"
               /\ \A i, j \in 1..Len(req[r].applicablePlugins) :
                     i < j => \E k, l \in 1..Len(registry) :
                                 /\ k < l
                                 /\ registry[k] = req[r].applicablePlugins[i]
                                 /\ registry[l] = req[r].applicablePlugins[j]

\* the first registered plugin's canHandle throws, the next one is found
C10_Witness ==
    \E r \in Reqs : /\ canHandleThrows(r)
                    /\ Len(registry) >= 2
                    /\ req[r].canHandle[registry[1]] = "throws"
                    /\ registry[2] \in Applicable(r)

(***************************************************************************)
(* Properties of the memory store (MemoryService)                          *)
(***************************************************************************)

\* the last m of the messages appended to a session so far, in append order
lastAppended(id, m) == [i \in 1..m |-> nthMessage(appended[id] - m + i)]

\* in this step the call op is made on session id
Calls(op, id) ==
    /\ ret'.op = op /\ ret'.id = id
    /\ IF ret.op = op /\ ret.id = id /\ ret.n = ret'.n
       THEN sessions' # sessions \/ ret'.value # ret.value
       ELSE TRUE

\* C11: after any appends to a session, getRecentMessages(id, n) returns the
\* last min(n, appended, cap) messages appended, in append order; for n = 0
\* it returns no message.
C11_RecentWindow ==
    ret.op = "getRecentMessages"
        => ret.value = lastAppended(ret.id,
                          Min(ret.n, Min(appended[ret.id], maxMessagesPerSession)))

\* C12: a session never holds more than the cap of 50 messages: it holds the
\* last min(appended, cap) messages appended to it, in append order.
C12_CapKeepsNewest ==
    \A id \in SessionIds :
        /\ Len(sessions[id].messages) <= maxMessagesPerSession
        /\ sessions[id].messages =
              lastAppended(id, Min(appended[id], maxMessagesPerSession))

\* more messages were appended to a session than the cap
C12_Witness ==
    \E id \in SessionIds :
        /\ appended[id] > maxMessagesPerSession
        /\ Len(sessions[id].messages) = maxMessagesPerSession
        /\ sessions[id].messages[1] = nthMessage(appended[id] - maxMessagesPerSession + 1)

\* C13: generateMemorySummary for a session that is absent, or present
\* without messages, returns the text "No previous conversation history.",
\* does not throw and leaves the store as it is: an absent session stays absent.
C13_SummaryOfNothing ==
    [][\A id \in SessionIds :
          /\ Calls("generateMemorySummary", id)
          /\ ~sessions[id].exists \/ Len(sessions[id].messages) = 0
          => /\ ret'.value = <<"No previous conversation history.">>
             /\ ~ret'.threw
             /\ sessions' = sessions]_vars

\* the summary of an absent session was asked for while the other one has messages
C13_Witness ==
    /\ ret.op = "generateMemorySummary"
    /\ ~sessions[ret.id].exists
    /\ ret.value = <<"No previous conversation history.">>
    /\ \E id \in SessionIds : Len(sessions[id].messages) > 0

\* C14: clearSession(id) returns true exactly when the session existed
\* before the call; after it the session is absent and getRecentMessages
\* returns nothing for it; every other session is as it was.
C14_ClearOneSession ==
    [][\A id \in SessionIds :
          Calls("clearSession", id)
          => /\ ret'.value = sessions[id].exists
             /\ ~sessions'[id].exists
             /\ \A n \in WindowSizes : getRecentMessages(sessions', id, n) = <<>>
             /\ \A other \in SessionIds \ {id} : sessions'[other] = sessions[other]]_vars

\* a session with messages was cleared while the other one has messages
C14_Witness ==
    /\ ret.op = "clearSession" /\ ret.value = TRUE
    /\ \E other \in SessionIds \ {ret.id} : Len(sessions[other].messages) > 0

\* C15: addMessage on one session leaves the messages of every other session
\* as they were, whatever calls were made before on either session.
C15_AppendsDoNotInterfere ==
    [][\A id \in SessionIds :
          Calls("addMessage", id)
          => \A other \in SessionIds \ {id} :
                sessions'[other].messages = sessions[other].messages]_vars

\* a message was appended to one session while the other holds messages too
C15_Witness ==
    /\ ret.op = "addMessage"
    /\ \A id \in SessionIds : Len(sessions[id].messages) > 0
    /\ \E other \in SessionIds : appended[other] # appended[ret.id]

\* C16: asked for a session that does not exist (never referenced, or
\* cleared), the session handler answers not found and the session still
\* does not exist afterwards.
C16_AbsentSessionIsReported ==
    [][\A id \in SessionIds :
          Calls("getSessionInfo", id) /\ ~sessions[id].exists
          => /\ ret'.value.status = 404
             /\ ~sessions'[id].exists]_vars

(***************************************************************************)
(* Properties of the RAG strategy's failures                               *)
(***************************************************************************)
\* the error thrown when the call awaited at a position of the RAG branch fails
ragFailure(pc) ==
    CASE pc = "rag_embedding" -> embeddingError
      [] pc = "rag_completion" -> completionError
      [] OTHER -> indexError

\* a completion call of the conversational strategy: it carries the system prompt
conversationalCall(call) == call.service = "completion" /\ call.system_prompt # NoText

\* C17: a step of a request inside the RAG strategy that neither advances
\* to the strategy's next call nor sends the reply is a failed collaborator
\* call: the request keeps the RAG strategy, is over, no call is made and no
\* message is stored, and the response is the error of the failed call sent
\* once; a request of the RAG strategy never makes the conversational
\* completion call, and a response sent is not replaced.
C17_RagFailureIsReported ==
    [][\A r \in Reqs :
          /\ req[r].strategy = "RAG" /\ req[r].pc \in BranchPcs("RAG") /\ req'[r] # req[r]
                => /\ \A i \in 1..Len(calls'[r]) : ~conversationalCall(calls'[r][i])
                   /\ IF req'[r].pc \in BranchPcs("RAG") \/ response'[r].status = 200
                      THEN TRUE
                      ELSE /\ req'[r].pc = "done" /\ req'[r].strategy = "RAG"
                           /\ calls'[r] = calls[r]
                           /\ sessions' = sessions
                           /\ response[r] = NoResponse
                           /\ response'[r] = errorResponse(ragFailure(req[r].pc))
          /\ req[r].pc = "done" /\ req[r].strategy = "RAG"
                => response'[r] = response[r] \/ req'[r].pc = "retired"]_vars

\* a RAG request whose embedding call failed: the provider's error is the response
C17_Witness ==
    \E r \in Reqs : /\ req[r].strategy = "RAG" /\ req[r].pc = "done"
                    /\ response[r] = errorResponse(embeddingError)
                    /\ calls[r][Len(calls[r])].service = "embedding"

\* the calls of searchSimilar
RetrieverCalls == {"embedding", "index.query"}

\* the completion call of the RAG strategy: the prompt carries the context
ragCompletionCall(call) == call.service = "completion" /\ call.system_prompt = NoText

\* C18: a request that called the retriever and is over without having
\* asked for the RAG completion (the retriever failed) made the
\* conversational completion call, and its response is not the retriever's
\* error.
C18_RetrievalFailureFallsBack ==
    \A r \in Reqs :
       /\ req[r].pc = "done"
       /\ \E i \in 1..Len(calls[r]) : calls[r][i].service \in RetrieverCalls
       /\ \A i \in 1..Len(calls[r]) : ~ragCompletionCall(calls[r][i])
       => /\ \E i \in 1..Len(calls[r]) : conversationalCall(calls[r][i])
          /\ response[r] \notin {errorResponse(embeddingError), errorResponse(indexError)}

(***************************************************************************)
(* Properties of chunkText                                                 *)
(***************************************************************************)
\* C19: every chunk chunkText returns has at most maxChunkSize characters
\* and is not shorter than the minimum-length threshold (the inputs have
\* 0 <= overlap < maxChunkSize).
C19_ChunkLengths ==
    chunker.pc = "returned"
       => \A i \in 1..Len(chunker.returned) :
             /\ Len(chunker.returned[i]) <= chunker.maxChunkSize
             /\ ~(Len(chunker.returned[i]) < minChunkLength)

\* a call that returned a chunk of full size and one cut at a sentence end,
\* and dropped a short chunk
C19_Witness ==
    /\ chunker.pc = "returned"
    /\ Len(chunker.returned) < Len(chunker.chunks)
    /\ \E i \in 1..Len(chunker.returned) : Len(chunker.returned[i]) = chunker.maxChunkSize
    /\ \E i \in 1..Len(chunker.returned) :
          /\ Len(chunker.returned[i]) < chunker.maxChunkSize
          /\ chunker.returned[i][Len(chunker.returned[i])] \in SentenceMarks

\* C20: every window after the first starts overlap characters before the
\* end position of the window before it, the first and second included.
C20_WindowsOverlap ==
    \A i \in 1..(Len(chunker.windows) - 1) :
       chunker.windows[i + 1][1] = chunker.windows[i][2] - chunker.overlap

\* the positions of the text, counted from 1, that the chunk of window i holds
held(i) ==
    LET w == chunker.windows[i]
    IN (w[1] + 1)..(w[1] + Len(cutAtSentence(chunker.text, w[1], w[2])))

\* C30: with the default parameters, every character of a text longer than
\* the minimum-length threshold that is not white space is held by a chunk
\* that is returned.
C30_EveryCharacterIsCovered ==
    /\ chunker.pc = "returned"
    /\ chunker.maxChunkSize = defaultMaxChunkSize /\ chunker.overlap = defaultOverlap
    /\ Len(chunker.text) > minChunkLength
    => \A p \in 1..Len(chunker.text) :
          ~IsSpace(chunker.text[p])
             => \E i \in 1..Len(chunker.windows) :
                   Len(chunker.chunks[i]) > minChunkLength /\ p \in held(i)

\* C34: in every iteration of chunkText's loop that is followed by another
\* one the window's start position increases, for every chunk size from 1
\* and every overlap from 0, the overlaps of the chunk size and more
\* included; so the loop ends.
C34_StartAdvances ==
    [][/\ chunker.pc = "while" /\ chunker'.pc = "while"
       /\ chunker'.windows # chunker.windows
       => chunker'.currentPosition > chunker.currentPosition]_vars

(***************************************************************************)
(* Properties of the relevance filter (RAGService.createContext)           *)
(***************************************************************************)
\* the matches at or above the threshold, in their order
atOrAboveThreshold(documents) ==
    SelectSeq(documents, LAMBDA doc : doc.score >= relevanceThreshold)

\* C21: the prompt of the RAG completion is built from exactly the matches
\* whose score is at or above the threshold, in their order: a match that
\* scores exactly the threshold is retained.
C21_FilterKeepsAtOrAbove ==
    \A r \in Reqs :
       req[r].pc = "rag_completion"
          => calls[r][Len(calls[r])].messages[1].content =
                generateRAGPrompt(req[r].message,
                                  contextText(atOrAboveThreshold(req[r].relevantDocuments)))

(***************************************************************************)
(* Properties of PromptService.generateSystemPrompt                        *)
(***************************************************************************)
\* C22: when the estimated token count of the assembled text exceeds the
\* budget, the text returned contains the truncation marker and its
\* estimated token count is at most the budget.
C22_TruncatedWithinBudget ==
    prompter.pc = "returned" /\ estimateTokens(fullPrompt(prompter)) > prompter.maxContextTokens
       => /\ includes(prompter.returned, truncationMarker)
          /\ estimateTokens(prompter.returned) <= prompter.maxContextTokens

\* C23: the text returned contains the whole current query.
C23_QueryIsKept ==
    prompter.pc = "returned" => includes(prompter.returned, prompter.userQuery)

(***************************************************************************)
(* Properties of the request boundary                                      *)
(***************************************************************************)
\* the bodies a request is rejected for
malformed ==
    { body \in Bodies :
        \/ body.message.type # "string"
        \/ Len(Chars(body.message.str)) > maxMessageLength
        \/ Len(trim(Chars(body.message.str))) = 0
        \/ body.session_id.type # "string"
        \/ Len(Chars(body.session_id.str)) > maxSessionIdLength }

\* C24: a handleMessage request with a malformed body ends at once with
\* status 400 and code VALIDATION_ERROR: no plugin is invoked, no session is
\* created or appended to, and no collaborator is called.
C24_MalformedIsRejected ==
    [][\A r \in Reqs :
          req[r].pc = "idle" /\ req'[r].pc # "idle"
             => \A body \in malformed :
                   HandleMessage(r, body, noPluginApplies, {})
                      => /\ req'[r].pc = "done"
                         /\ response'[r].status = 400
                         /\ response'[r].code = "VALIDATION_ERROR"
                         /\ response'[r].reply = NoText
                         /\ inv' = inv /\ calls' = calls /\ sessions' = sessions
                         /\ rag' = rag]_vars

\* a request rejected for a message of white space only
C24_Witness ==
    \E r \in Reqs : /\ req[r].pc = "done" /\ response[r].status = 400
                    /\ response[r].code = "VALIDATION_ERROR"
                    /\ response[r].error = <<"Message cannot be empty">>
                    /\ calls[r] = <<>>
                    /\ \A id \in SessionIds : ~sessions[id].exists

\* the message texts that come from the completion, embedding and index providers
CollaboratorMessages == {"provider message", "index provider message"}

\* C25: the response to a failure other than a validation failure carries
\* no message text of a collaborator.
C25_ErrorsAreGeneric ==
    \A r \in Reqs :
       response[r].status \notin {0, 200} /\ response[r].code # "VALIDATION_ERROR"
          => \A i \in 1..Len(response[r].error) :
                response[r].error[i] \notin CollaboratorMessages

(***************************************************************************)
(* Properties of the session history under concurrent requests             *)
(***************************************************************************)
\* the roles and contents of messages, without their time stamps
texts(messages) ==
    [i \in 1..Len(messages) |-> <<messages[i].role, messages[i].content>>]

\* C26: when the requests made on a session have all succeeded, with
\* different texts, and the session was not cleared, the history holds the
\* user message of each immediately followed by the assistant message with
\* that request's reply.
C26_PairsStayTogether ==
    \A r \in Reqs :
       /\ req[r].pc = "done" /\ response[r].status = 200
       /\ req[r].handler = "handleMessage"
       /\ ~track.cleared[req[r].session_id].found
       /\ \A q \in Reqs \ {r} :
             req[q].pc # "idle" /\ req[q].session_id = req[r].session_id
                => /\ req[q].pc = "done" /\ response[q].status = 200
                   /\ req[q].message # req[r].message
       => LET history == texts(sessions[req[r].session_id].messages)
          IN \E i \in 1..(Len(history) - 1) :
                /\ history[i] = <<"user", <<req[r].message>>>>
                /\ history[i + 1] = <<"assistant", response[r].reply>>

\* C27: a session that a clear found stays absent as long as no request
\* that was idle at the clear has begun on it.
C27_ClearedStaysAbsent ==
    \A id \in SessionIds :
       /\ track.cleared[id].found
       /\ ~\E q \in track.cleared[id].idle :
              req[q].pc # "idle" /\ req[q].session_id = id
       => ~sessions[id].exists

\* request r ends in this step
Ends(r) ==
    /\ req[r].handler = "handleMessage"
    /\ req[r].pc \notin {"idle", "done", "retired"}
    /\ req'[r].pc = "done"

\* C28: a request that no request and no clear on its session overlapped
\* and that ends with a failure after it took the RAG or the conversational
\* strategy leaves the session holding what it held when the request began
\* and the user message, cut to the cap; no assistant message is added.
C28_FailureKeepsUserMessage ==
    [][\A r \in Reqs :
          /\ Ends(r) /\ ~track.overlapped[r]
          /\ req'[r].strategy \in {"RAG", "CONVERSATIONAL"}
          /\ response'[r].status # 200
          => /\ sessions'[req[r].session_id].exists
             /\ texts(sessions'[req[r].session_id].messages) =
                   sliceLast(texts(track.before[r]) \o <<<<"user", <<req[r].message>>>>>>,
                             maxMessagesPerSession)]_vars

\* the second request on a session failed at a collaborator: the session
\* holds the first request's two messages and the second's user message
C28_Witness ==
    \E r \in Reqs :
       /\ req[r].pc = "done" /\ response[r].status = 500
       /\ req[r].strategy \in {"RAG", "CONVERSATIONAL"}
       /\ ~track.overlapped[r] /\ Len(track.before[r]) = 2
       /\ Len(sessions[req[r].session_id].messages) = 3
       /\ sessions[req[r].session_id].messages[3].role = "user"

\* C29: a request that no request and no clear on its session overlapped
\* and that ends with a reply leaves the session holding what it held when
\* the request began, then the user message with the request's text, then
\* an assistant message with the reply sent, cut to the cap.
C29_SuccessAppendsPair ==
    [][\A r \in Reqs :
          /\ Ends(r) /\ ~track.overlapped[r]
          /\ response'[r].status = 200
          => /\ sessions'[req[r].session_id].exists
             /\ texts(sessions'[req[r].session_id].messages) =
                   sliceLast(texts(track.before[r])
                             \o << <<"user", <<req[r].message>>>>,
                                   <<"assistant", response'[r].reply>> >>,
                             maxMessagesPerSession)]_vars

\* the second request on a session succeeded: two messages were added to
\* the first request's two
C29_Witness ==
    \E r \in Reqs :
       /\ req[r].pc = "done" /\ response[r].status = 200
       /\ ~track.overlapped[r] /\ Len(track.before[r]) = 2
       /\ Len(sessions[req[r].session_id].messages) = 4
       /\ sessions[req[r].session_id].messages[4].content = response[r].reply

(***************************************************************************)
(* Properties of the sources of a RAG reply (RAGService.extractSources)    *)
(***************************************************************************)
\* C31: every source listed in a RAG reply is the source of a match of the
\* request that scored at or above the threshold: a match below the
\* threshold adds nothing to the sources.
C31_SourcesPassedTheFilter ==
    \A r \in Reqs :
       req[r].strategy = "RAG" /\ response[r].status = 200
          => \A i \in 1..Len(response[r].sources) :
                \E k \in 1..Len(req[r].relevantDocuments) :
                   /\ req[r].relevantDocuments[k].source = response[r].sources[i]
                   /\ req[r].relevantDocuments[k].score >= relevanceThreshold

(***************************************************************************)
(* Properties of the race between a plugin and its timer                   *)
(* (PluginExecutionService.executeWithTimeout)                             *)
(***************************************************************************)
\* the result reported for plugin p of request r is the timed-out failure
reportsTimeout(r, p) ==
    /\ inv[r][p].promise.state = "fulfilled"
    /\ ~inv[r][p].promise.value.result.success
    /\ inv[r][p].promise.value.result.error =
          <<"Plugin ", p, " execution timed out after ", ToString(defaultTimeout), "ms">>

\* C32: an invocation reports one outcome.  Once its result is there it is
\* not replaced until it is read; when the timer fired before the plugin's
\* execute settled the result is the timed-out failure, also after the
\* execute resolves or rejects; when the execute settled first its timer
\* never fires and the result is not the timed-out failure.
C32_OneOutcomePerInvocation ==
    [][\A r \in Reqs : \A p \in PluginNames :
          /\ inv[r][p].promise.state = "fulfilled"
                => inv'[r][p].promise \in {inv[r][p].promise, NoPromise}
          /\ inv'[r][p].timer = "fired" /\ inv'[r][p].exec # "threw"
             /\ inv'[r][p].promise.state # "none"
                => reportsTimeout(r, p)'
          /\ inv[r][p].timer = "cleared"
                => /\ inv'[r][p].timer \in {"cleared", "none"}
                   /\ inv[r][p].promise.state # "none"
                         => /\ ~reportsTimeout(r, p)
                            /\ inv[r][p].outcome.resolved
                                  => inv[r][p].promise.value.result = inv[r][p].outcome.result]_vars

\* one plugin of a request timed out and resolved with a success afterwards,
\* another one resolved before the deadline, which has passed
C32_Witness ==
    \E r \in Reqs : \E slow, fast \in PluginNames :
       /\ req[r].pc = "plugins"
       /\ inv[r][slow].timer = "fired" /\ inv[r][slow].exec = "settled"
       /\ inv[r][slow].outcome.resolved /\ inv[r][slow].outcome.result.success
       /\ reportsTimeout(r, slow)
       /\ inv[r][fast].timer = "cleared" /\ inv[r][fast].deadline <= now
       /\ inv[r][fast].promise.state = "fulfilled"
       /\ inv[r][fast].promise.value.result.success

(***************************************************************************)
(* Properties of the sweep (MemoryService.cleanupExpiredSessions)          *)
(***************************************************************************)
\* the age of a session's last activity
ageOf(id) == now - sessions[id].last_activity

\* C33: a sweep removes the sessions whose last activity is more than the
\* maximum session age ago when it runs, and no other: a session whose age
\* is the maximum or less is left as it is, with its messages.
C33_SweepRemovesExpiredOnly ==
    [][cleanupTimer'.sweeps # cleanupTimer.sweeps
          => \A id \in SessionIds :
                IF sessions[id].exists /\ ageOf(id) > maxSessionAge
                THEN ~sessions'[id].exists
                ELSE sessions'[id] = sessions[id]]_vars

\* a sweep has removed a session one millisecond over the age and left one
\* with a message whose age is the maximum
C33_Witness ==
    /\ cleanupTimer.sweeps > 0
    /\ cleanupTimer.due = now + cleanupInterval
    /\ \E gone, kept \in SessionIds :
          /\ ~sessions[gone].exists
          /\ sessions[kept].exists /\ ageOf(kept) = maxSessionAge
          /\ Len(sessions[kept].messages) > 0
          /\ now = maxSessionAge + 1

(***************************************************************************)
(* Properties of the order of the plugins in a reply                       *)
(***************************************************************************)
\* the plugins of request r whose result is a success, in registration order
successesInRegistrationOrder(r) ==
    SelectSeq(registry,
              LAMBDA p : /\ p \in Applicable(r)
                         /\ inv[r][p].promise.state = "fulfilled"
                         /\ inv[r][p].promise.value.result.success)

\* C35: the reply of a request routed to PLUGIN holds the texts of its
\* successful plugins, and plugins_used their names, in the order in which
\* the plugins are registered, whatever the order in which they completed.
C35_ReplyInRegistrationOrder ==
    [][\A r \in Reqs :
          Routes(r) /\ req'[r].strategy = "PLUGIN"
             => LET ok == successesInRegistrationOrder(r)
                IN /\ response'[r].plugins_used = ok
                   /\ response'[r].reply =
                         join([i \in 1..Len(ok) |->
                                  pluginReplyText(inv[r][ok[i]].promise.value.result)],
                              <<"\n\n">>)]_vars

\* a reply of two plugins of which the one registered second completed first
C35_Witness ==
    \E r \in Reqs :
       /\ response[r].status = 200 /\ req[r].strategy = "PLUGIN"
       /\ Len(registry) >= 2
       /\ response[r].plugins_used = <<registry[1], registry[2]>>
       /\ \E i, j \in 1..Len(track.completed[r]) :
             /\ i < j
             /\ track.completed[r][i] = registry[2]
             /\ track.completed[r][j] = registry[1]

(***************************************************************************)
(* Properties of the initialization of the RAG system                      *)
(***************************************************************************)
\* the requests whose initialize is loading the documents
loading == { r \in Reqs : req[r].pc = "rag_loadDocuments" }

\* C36: the documents are never being loaded by two requests at once.
C36_LoadRunsOnce == Cardinality(loading) <= 1

(***************************************************************************)
(* Properties of the read operations of the memory store                   *)
(***************************************************************************)
ReadOps == {"getRecentMessages", "getConversationContext", "generateMemorySummary",
            "getSessionStats", "getAllSessions"}

\* C37: a call of getRecentMessages, getConversationContext,
\* generateMemorySummary, getSessionStats or getAllSessions leaves the
\* table of sessions as it is: no session is created, and no session's
\* messages or last-activity time change.
C37_ReadsLeaveTheTable ==
    [][ret'.op \in ReadOps => sessions' = sessions]_vars

\* the statistics of an absent session were asked for while the other
\* session holds messages and was last used some time ago
C37_Witness ==
    /\ ret.op = "getSessionStats" /\ ~ret.value.found
    /\ ~sessions[ret.id].exists
    /\ \E other \in SessionIds :
          /\ sessions[other].exists /\ Len(sessions[other].messages) > 0
          /\ sessions[other].last_activity < now

(***************************************************************************)
(* Properties of the fields of a reply (AgentController.handleMessage)     *)
(***************************************************************************)
\* in this step the reply of handleMessage request r is sent
Replies(r) ==
    /\ req[r].handler = "handleMessage"
    /\ response[r].status = 0 /\ response'[r].status = 200

RECURSIVE flatten(_)
\* the batches one after the other
flatten(batches) ==
    IF Len(batches) = 0 THEN <<>>
    ELSE flatten(SubSeq(batches, 1, Len(batches) - 1)) \o batches[Len(batches)]

\* every chunk of every document, in document order then chunk order
allChunks(documents) ==
    flatten([d \in 1..Len(documents) |-> [k \in 1..documents[d] |-> <<d, k - 1>>]])

\* C39: no call of upsert is given more than 100 vectors; when
\* storeDocuments has returned, the vectors upserted, batch after batch,
\* are the chunks of the documents, each once, in document order then chunk
\* order, and they are the chunks that were embedded.
C39_EveryChunkUpsertedOnce ==
    /\ \A b \in 1..Len(storer.upserted) : Len(storer.upserted[b]) <= upsertBatchSize
    /\ storer.pc = "returned"
          => /\ flatten(storer.upserted) = allChunks(storer.documents)
             /\ flatten(storer.upserted) = storer.embedded

\* a call that returned after a full batch holding chunks of two documents
\* and a last batch with the rest
C39_Witness ==
    /\ storer.pc = "returned"
    /\ Len(storer.upserted) = 2
    /\ Len(storer.upserted[1]) = upsertBatchSize
    /\ storer.upserted[1][1][1] # storer.upserted[1][upsertBatchSize][1]
    /\ Len(storer.upserted[2]) \in 1..(upsertBatchSize - 1)

====
